---- MODULE Spec2Model ----
(***************************************************************************)
(* Model of the platformer core: Level tile lists, Player (player.py) and  *)
(* the Enemy chassis (enemy.py), driven one frame at a time.               *)
(*                                                                         *)
(* Units.  Positions are integer pixels (pygame.Rect stores integers).     *)
(* Vertical velocities are kept in TENTHS of a pixel per frame, because    *)
(* gravity is 0.8: velocity_y = -150 is the source's -15.  Horizontal      *)
(* velocities are whole pixels.  Assigning a float to rect.y truncates     *)
(* toward zero (TruncTenths).  Times are milliseconds of                   *)
(* pygame.time.get_ticks(), read once per frame.                           *)
(***************************************************************************)
EXTENDS Integers, Sequences, FiniteSets, TLC

VARIABLES now, level, start, player, enemy, projectile, game, lastOp, hist

vars == <<now, level, start, player, enemy, projectile, game, lastOp, hist>>

(***************************************************************************)
(* Bounds of the model                                                     *)
(***************************************************************************)
\* clock reading at which each specification loads the level, and the
\* milliseconds it explores from there
PhysStart == 2000
PhysSpan == 600
JumpStart == 1000
JumpSpan == 1600
DashStart == 1000
DashSpan == 1100
\* clock readings at which the player is constructed, and the milliseconds
\* followed from the earliest of them
TapSpan == 1300
ImmuneSpan == 700
ShootStart == 200
ShootSpan == 900
HealthStart == 1000
HealthSpan == 1100
\* milliseconds between two frames: a regular frame and a lag spike
FrameTimes == {100, 500}
\* largest damage argument passed to take_damage
MaxDamage == 3
\* largest number of enemy frames explored
MaxEnemyFrames == 130
MaxBossAttacks == 5
\* largest number of jumps of a JumpingEnemy followed
MaxJumps == 3
MaxProjectileFrames == 60
\* clock reading at which the game is joined, the milliseconds a frame of it
\* takes, and the largest number of its frames explored
GameStart == 1000
GameFrameTime == 500
MaxGameFrames == 5
\* largest number of frames explored of a game whose player only stands by
MaxStandbyFrames == 40
\* frames followed of a player on the last heart next to the exit door
MaxDoorFrames == 9

(***************************************************************************)
(* Geometry: pygame.Rect                                                   *)
(***************************************************************************)
Rect(x, y, w, h) == [x |-> x, y |-> y, w |-> w, h |-> h]

colliderect(a, b) ==
    /\ a.x < b.x + b.w
    /\ b.x < a.x + a.w
    /\ a.y < b.y + b.h
    /\ b.y < a.y + a.h

\* int(v / 10) as pygame converts a float coordinate: truncation toward zero
TruncTenths(n) == IF n >= 0 THEN n \div 10 ELSE -((-n) \div 10)

\* evaluate e once and hand its value to F
Bind(e, F(_)) == CHOOSE y \in {F(x) : x \in {e}} : TRUE

Max2(a, b) == IF a >= b THEN a ELSE b
Min2(a, b) == IF a <= b THEN a ELSE b

(***************************************************************************)
(* Level (level.py): a CSV grid of tile codes turned into rect lists       *)
(***************************************************************************)
tile_size == 64
platform_thickness == 8

\* The CSV grids explored.  Codes as in Level: "." empty, "G" ground,
\* "P" one-way platform, "J"/"B" enemy spawn markers.
GridWall ==
    << << ".", ".", "." >>,
       << ".", ".", "G" >>,
       << "G", "G", "G" >> >>

GridCorridor ==
    << << "G", "G", "G" >>,
       << ".", "P", "." >>,
       << "G", "G", "G" >> >>

GridDrop ==
    << << ".", "." >>,
       << "P", "." >> >>

GridEnemy ==
    << << "G", "G", "G" >>,
       << "J", "P", "P" >>,
       << "G", "G", "G" >> >>

GridEnemyOpen ==
    << << "B", ".", "." >>,
       << "P", "P", "G" >>,
       << "G", "G", "G" >> >>

\* patrol grounds of a BasicEnemy: between two walls, and on a lone column
GridPatrolWalls ==
    << << "G", ".", "B", "G" >>,
       << "G", "G", "G", "G" >> >>

GridPatrolEdges ==
    << << "B" >>,
       << "G" >> >>

PatrolGrids == {GridPatrolWalls, GridPatrolEdges}
\* an AmbushEnemy under a ceiling, a solid block and a one-way platform
\* below it to either side, and a shaft deeper than its detection range
GridAmbush ==
    << << "G", "G", "G", "G" >>,
       << ".", "A", ".", "." >>,
       << "G", ".", "P", "." >>,
       << ".", ".", ".", "." >>,
       << ".", ".", ".", "." >>,
       << ".", ".", ".", "." >>,
       << ".", ".", ".", "." >>,
       << ".", ".", ".", "." >>,
       << ".", ".", ".", "." >>,
       << ".", ".", ".", "." >> >>
\* the boss room: a floor and one block at the height the boss hovers at
\* over a player standing on the floor
GridBoss ==
    << << ".", ".", ".", ".", "." >>,
       << ".", "G", ".", ".", "." >>,
       << ".", ".", "Z", ".", "." >>,
       << ".", ".", ".", ".", "." >>,
       << "G", "G", "G", "G", "G" >> >>
EnemyGrids == {GridEnemy, GridEnemyOpen}

Cells(grid) ==
    LET rows == Len(grid)
        cols == Len(grid[1])
    IN  [k \in 1..(rows * cols) |->
            [r |-> (k - 1) \div cols, c |-> (k - 1) % cols,
             code |-> grid[((k - 1) \div cols) + 1][((k - 1) % cols) + 1]]]

\* the rects of the cells holding one of the codes, in row-major order
TileRects(grid, codes, h) ==
    LET sel == SelectSeq(Cells(grid), LAMBDA cell : cell.code \in codes)
    IN  [i \in 1..Len(sel) |->
            Rect(sel[i].c * tile_size, sel[i].r * tile_size, tile_size, h)]

\* "no rect": the value of exit_rect in a level without an exit door
NoRect == << >>

\* collectibles sit centred on their cell, half a tile wide and high
Collectibles(grid) ==
    LET sel == SelectSeq(Cells(grid), LAMBDA cell : cell.code = "C")
    IN  [i \in 1..Len(sel) |->
            [rect |-> Rect(sel[i].c * tile_size + tile_size \div 4,
                           sel[i].r * tile_size + tile_size \div 4,
                           tile_size \div 2, tile_size \div 2),
             collected |-> FALSE]]

\* the exit door: the last cell marked "E", if any
ExitRect(grid) ==
    LET doors == TileRects(grid, {"E"}, tile_size)
    IN  IF Len(doors) = 0 THEN NoRect ELSE doors[Len(doors)]

load_from_csv(grid) ==
    [solid_tiles     |-> TileRects(grid, {"G", "D", "S", "R"}, tile_size),
     removable_tiles |-> TileRects(grid, {"R"}, tile_size),
     one_way_tiles   |-> TileRects(grid, {"P"}, platform_thickness),
     collectibles    |-> Collectibles(grid),
     exit_rect       |-> ExitRect(grid),
     boss_defeated   |-> FALSE,
     width           |-> Len(grid[1]) * tile_size,
     height          |-> Len(grid) * tile_size]

\* list.remove: the sequence without the first element equal to t
RemoveFirst(tiles, t) ==
    IF \E i \in 1..Len(tiles) : tiles[i] = t
    THEN LET i == CHOOSE j \in 1..Len(tiles) :
                      tiles[j] = t /\ \A m \in 1..(j - 1) : tiles[m] # t
         IN  SubSeq(tiles, 1, i - 1) \o SubSeq(tiles, i + 1, Len(tiles))
    ELSE tiles

RECURSIVE RemoveEach(_, _, _)
RemoveEach(tiles, removable, i) ==
    IF i > Len(removable) THEN tiles
    ELSE RemoveEach(RemoveFirst(tiles, removable[i]), removable, i + 1)

\* variant: the defeat of the boss clears every solid tile
remove_boss_tiles_clearing_all(lv) ==
    IF ~lv.boss_defeated
    THEN [lv EXCEPT !.boss_defeated = TRUE, !.solid_tiles = << >>]
    ELSE lv

remove_boss_tiles(lv) ==
    IF ~lv.boss_defeated
    THEN [lv EXCEPT !.boss_defeated = TRUE,
                    !.solid_tiles = RemoveEach(@, lv.removable_tiles, 1)]
    ELSE lv

is_exit_unlocked(lv) ==
    LET total == Len(lv.collectibles)
        collected == Cardinality({i \in 1..total : lv.collectibles[i].collected})
    IN  total = 0 \/ collected = total

\* The levels explored
LevelWall == load_from_csv(GridWall)
LevelCorridor == load_from_csv(GridCorridor)
LevelDrop == load_from_csv(GridDrop)

\* spawn markers of the enemies: centre of the marked cell
enemy_spawns(grid) ==
    LET sel == SelectSeq(Cells(grid), LAMBDA cell : cell.code \in {"B", "J", "A", "Z"})
    IN  { [x |-> sel[i].c * tile_size + tile_size \div 2,
           y |-> sel[i].r * tile_size + tile_size \div 2,
           type |-> CASE sel[i].code = "J" -> "jumping"
                      [] sel[i].code = "A" -> "ambush"
                      [] sel[i].code = "Z" -> "boss"
                      [] OTHER -> "basic"]
          : i \in 1..Len(sel) }

RECURSIVE MinTop(_, _, _, _)
MinTop(tiles, i, x_position, best) ==
    IF i > Len(tiles) THEN best
    ELSE LET t == tiles[i]
             cx == t.x + t.w \div 2
             d == IF cx >= x_position THEN cx - x_position ELSE x_position - cx
         IN  MinTop(tiles, i + 1, x_position,
                    IF d <= 200 /\ t.y < best THEN t.y ELSE best)

get_highest_ground_y(lv, x_position) ==
    MinTop(lv.one_way_tiles, 1, x_position,
           MinTop(lv.solid_tiles, 1, x_position, lv.height - 100))

\* Game.load_level, lines 92-96: the calculated start, 20 px above the
\* highest ground near x = 100
DefaultStart(lv) == <<100, get_highest_ground_y(lv, 100) - 20>>

\* The positions Player(start_x, start_y) is constructed at, per level:
\* beside the wall, on the corridor floor, above the platform, beside it
StartsWall == {<<90, 80>>, DefaultStart(LevelWall)}
StartsCorridor == {<<40, 80>>}
StartsDrop == {<<20, 15>>, <<80, 70>>}

(***************************************************************************)
(* Player (player.py)                                                      *)
(***************************************************************************)
Player_width == 32
Player_height == 48
max_hearts == 3
speed == 5
jump_speed == -150
gravity == 8
max_fall_speed == 150
double_jump_grace_period == 500
shoot_cooldown == 300
invulnerable_duration == 1000
dash_speed == 15
dash_duration == 200
dash_cooldown == 500
dash_grace_period == 100
double_tap_window == 300

Keys == [left : BOOLEAN, right : BOOLEAN, jump : BOOLEAN]
NoKeys == [left |-> FALSE, right |-> FALSE, jump |-> FALSE]

Player_init(x0, y0) ==
    [x |-> x0, y |-> y0,
     hearts |-> 3,
     velocity_x |-> 0, velocity_y |-> 0,
     on_ground |-> FALSE, was_on_ground |-> FALSE, can_jump |-> TRUE,
     has_double_jump |-> FALSE, jump_key_was_pressed |-> FALSE,
     jump_start_time |-> 0, has_landed_since_jump |-> TRUE,
     last_shot_time |-> 0, facing_direction |-> 1,
     invulnerable |-> FALSE, invulnerable_time |-> 0,
     is_dashing |-> FALSE, dash_start_time |-> 0, last_dash_time |-> 0,
     dash_direction |-> 0, last_grounded_time |-> 0,
     last_left_press_time |-> 0, last_right_press_time |-> 0,
     left_key_was_pressed |-> FALSE, right_key_was_pressed |-> FALSE]

Player_rect(p) == Rect(p.x, p.y, Player_width, Player_height)

\* update, lines 86-98: previous ground state, invulnerability and dash timers
UpdateTimers(p, t) ==
    LET inv == IF p.invulnerable /\ t - p.invulnerable_time > invulnerable_duration
               THEN FALSE ELSE p.invulnerable
        over == p.is_dashing /\ t - p.dash_start_time > dash_duration
    IN  [p EXCEPT !.was_on_ground = p.on_ground,
                  !.invulnerable = inv,
                  !.is_dashing = IF over THEN FALSE ELSE @,
                  !.dash_direction = IF over THEN 0 ELSE @]

\* variant: the cooldown does not count
can_dash_without_cooldown(p, t) ==
    LET recently_grounded == (t - p.last_grounded_time) <= dash_grace_period
    IN  recently_grounded /\ ~p.is_dashing
can_dash(p, t) ==
    LET cooldown_ready == (t - p.last_dash_time) > dash_cooldown
        recently_grounded == (t - p.last_grounded_time) <= dash_grace_period
    IN  recently_grounded /\ ~p.is_dashing /\ cooldown_ready

start_dash(p, direction, t) ==
    [p EXCEPT !.is_dashing = TRUE,
              !.dash_direction = direction,
              !.dash_start_time = t,
              !.last_dash_time = t]

\* whether a rising edge at time t, after an earlier press at time last,
\* counts as a double tap
IsDoubleTap(t, last) == (t - last) < double_tap_window

\* lines 108-114 (direction -1, left key) and 117-123 (direction 1, right key)
TapKey(p, pressed, direction, dash_available, t) ==
    LET was == IF direction < 0 THEN p.left_key_was_pressed ELSE p.right_key_was_pressed
        last == IF direction < 0 THEN p.last_left_press_time ELSE p.last_right_press_time
        q == IF pressed /\ ~was /\ dash_available /\ IsDoubleTap(t, last)
             THEN start_dash(p, direction, t) ELSE p
    IN  IF direction < 0
        THEN [q EXCEPT !.last_left_press_time = IF pressed /\ ~was THEN t ELSE @,
                       !.left_key_was_pressed = pressed]
        ELSE [q EXCEPT !.last_right_press_time = IF pressed /\ ~was THEN t ELSE @,
                       !.right_key_was_pressed = pressed]

\* update, lines 103-123: double-tap detection, skipped while dashing
CheckDoubleTap(p, k, t) ==
    IF p.is_dashing THEN p
    ELSE Bind(TapKey(p, k.left, -1, can_dash(p, t), t), LAMBDA pl :
              TapKey(pl, k.right, 1, can_dash(p, t), t))

\* update, lines 125-142: horizontal velocity from the dash or from the keys
HorizontalInput(p, k) ==
    IF p.is_dashing
    THEN [p EXCEPT !.velocity_x = p.dash_direction * dash_speed,
                   !.facing_direction =
                       IF p.dash_direction # 0 THEN p.dash_direction ELSE @]
    ELSE [p EXCEPT !.velocity_x =
                       IF k.right THEN speed ELSE IF k.left THEN -speed ELSE 0,
                   !.facing_direction =
                       IF k.right THEN 1 ELSE IF k.left THEN -1 ELSE @]

\* variant: gravity also pulls on a body that begins the frame grounded
ApplyGravity_on_the_ground(p) ==
    [p EXCEPT !.velocity_y = Min2(p.velocity_y + gravity, max_fall_speed)]

\* update, lines 144-148
ApplyGravity(p) ==
    IF ~p.on_ground
    THEN [p EXCEPT !.velocity_y = Min2(p.velocity_y + gravity, max_fall_speed)]
    ELSE p

RECURSIVE Player_check_horizontal_collisions(_, _, _)
Player_check_horizontal_collisions(p, tiles, i) ==
    IF i > Len(tiles) THEN p
    ELSE LET tile == tiles[i]
             q == IF colliderect(Player_rect(p), tile)
                  THEN IF p.velocity_x > 0
                       THEN [p EXCEPT !.x = tile.x - Player_width]
                       ELSE IF p.velocity_x < 0
                            THEN [p EXCEPT !.x = tile.x + tile.w]
                            ELSE p
                  ELSE p
         IN  Bind(q, LAMBDA v : Player_check_horizontal_collisions(v, tiles, i + 1))

\* variant of MoveHorizontal: the move without the collision pass
MoveHorizontal_unresolved(p, solid_tiles) ==
    [p EXCEPT !.x = p.x + p.velocity_x]

\* update, lines 150-153
MoveHorizontal(p, solid_tiles) ==
    Player_check_horizontal_collisions([p EXCEPT !.x = p.x + p.velocity_x],
                                       solid_tiles, 1)

RECURSIVE VerticalSolid(_, _, _)
VerticalSolid(p, tiles, i) ==
    IF i > Len(tiles) THEN p
    ELSE LET tile == tiles[i]
             q == IF colliderect(Player_rect(p), tile)
                  THEN IF p.velocity_y > 0
                       THEN [p EXCEPT !.y = tile.y - Player_height,
                                      !.velocity_y = 0,
                                      !.on_ground = TRUE,
                                      !.can_jump = TRUE]
                       ELSE IF p.velocity_y < 0
                            THEN [p EXCEPT !.y = tile.y + tile.h,
                                           !.velocity_y = 0]
                            ELSE p
                  ELSE p
         IN  Bind(q, LAMBDA v : VerticalSolid(v, tiles, i + 1))

\* variant of LandsOnOneWay: falling is enough, wherever the body came from
LandsOnOneWay_falling(p, prev_bottom, tile) ==
    p.velocity_y > 0

\* the landing condition of a one-way tile, line 219
LandsOnOneWay(p, prev_bottom, tile) ==
    p.velocity_y > 0 /\ prev_bottom <= tile.y

RECURSIVE VerticalOneWay(_, _, _, _)
VerticalOneWay(p, tiles, i, prev_bottom) ==
    IF i > Len(tiles) THEN p
    ELSE LET tile == tiles[i]
             q == IF colliderect(Player_rect(p), tile) /\ LandsOnOneWay(p, prev_bottom, tile)
                  THEN [p EXCEPT !.y = tile.y - Player_height,
                                 !.velocity_y = 0,
                                 !.on_ground = TRUE,
                                 !.can_jump = TRUE]
                  ELSE p
         IN  Bind(q, LAMBDA v : VerticalOneWay(v, tiles, i + 1, prev_bottom))

\* lines 225-230
ClampToLevelBottom(p, level_height) ==
    IF p.y + Player_height >= level_height
    THEN [p EXCEPT !.y = level_height - Player_height,
                   !.velocity_y = 0,
                   !.on_ground = TRUE,
                   !.can_jump = TRUE]
    ELSE p

AnyCollides(r, tiles) == \E i \in 1..Len(tiles) : colliderect(r, tiles[i])

\* variant: no probe below the body
GroundProbe_never(p, was_grounded, solid_tiles, one_way_tiles) == p

\* variant: the probe does not ask for velocity_y = 0
GroundProbe_while_moving(p, was_grounded, solid_tiles, one_way_tiles) ==
    IF was_grounded /\ ~p.on_ground
    THEN LET test_rect == Rect(p.x, p.y + 1, Player_width, Player_height)
         IN  IF AnyCollides(test_rect, solid_tiles) \/ AnyCollides(test_rect, one_way_tiles)
             THEN [p EXCEPT !.on_ground = TRUE, !.can_jump = TRUE]
             ELSE p
    ELSE p
\* lines 232-250: the one-pixel probe below a body that stood still
GroundProbe(p, was_grounded, solid_tiles, one_way_tiles) ==
    IF p.velocity_y = 0 /\ was_grounded /\ ~p.on_ground
    THEN LET test_rect == Rect(p.x, p.y + 1, Player_width, Player_height)
         IN  IF AnyCollides(test_rect, solid_tiles) \/ AnyCollides(test_rect, one_way_tiles)
             THEN [p EXCEPT !.on_ground = TRUE, !.can_jump = TRUE]
             ELSE p
    ELSE p

\* lines 252-259
NoteGrounded(p, t) ==
    IF p.on_ground
    THEN [p EXCEPT !.last_grounded_time = t,
                   !.has_landed_since_jump =
                       IF ~p.was_on_ground THEN TRUE ELSE @]
    ELSE p

Player_check_vertical_collisions(p, solid_tiles, one_way_tiles, prev_bottom, level_height, t) ==
    Bind(VerticalSolid([p EXCEPT !.on_ground = FALSE], solid_tiles, 1), LAMBDA p1 :
    Bind(VerticalOneWay(p1, one_way_tiles, 1, prev_bottom), LAMBDA p2 :
    Bind(ClampToLevelBottom(p2, level_height), LAMBDA p3 :
    Bind(GroundProbe(p3, p.on_ground, solid_tiles, one_way_tiles), LAMBDA p4 :
         NoteGrounded(p4, t)))))

\* update, lines 155-157
MoveVertical(p, solid_tiles, one_way_tiles, prev_bottom, level_height, t) ==
    Bind([p EXCEPT !.y = TruncTenths(10 * p.y + p.velocity_y)], LAMBDA m :
         Player_check_vertical_collisions(m, solid_tiles, one_way_tiles,
                                          prev_bottom, level_height, t))

\* variant: a body held back at a side of the level also loses its
\* vertical velocity
ClampToLevel_stopping(p, level_width, level_height) ==
    [p EXCEPT !.x = Max2(0, Min2(p.x, level_width - Player_width)),
              !.y = Max2(0, Min2(p.y, level_height - Player_height)),
              !.velocity_y = IF p.x < 0 \/ p.x > level_width - Player_width
                             THEN 0 ELSE @]

\* update, lines 159-161
ClampToLevel(p, level_width, level_height) ==
    [p EXCEPT !.x = Max2(0, Min2(p.x, level_width - Player_width)),
              !.y = Max2(0, Min2(p.y, level_height - Player_height))]

\* variant of JumpGround: the ground state of the previous frame
JumpGround_previous_frame(p) == p.was_on_ground

\* the ground state the jump check reads, line 168
JumpGround(p) == p.on_ground

\* variant of AirJumpAllowed: the charge is not consulted
AirJumpAllowed_without_charge(p, t) ==
    t - p.jump_start_time <= double_jump_grace_period

\* the air jump conditions, lines 175-179
AirJumpAllowed(p, t) ==
    p.has_double_jump /\ t - p.jump_start_time <= double_jump_grace_period

\* update, lines 163-183: jump on the rising edge of the jump key
HandleJump(p, k, t) ==
    LET q == IF k.jump /\ ~p.jump_key_was_pressed
             THEN IF JumpGround(p)
                  THEN [p EXCEPT !.velocity_y = jump_speed,
                                 !.can_jump = FALSE,
                                 !.jump_start_time = t,
                                 !.has_landed_since_jump = FALSE,
                                 !.has_double_jump = TRUE]
                  ELSE IF AirJumpAllowed(p, t)
                       THEN [p EXCEPT !.velocity_y = jump_speed,
                                      !.has_double_jump = FALSE]
                       ELSE p
             ELSE p
    IN  [q EXCEPT !.jump_key_was_pressed = k.jump]

\* update, lines 84-161: the player after collision resolution, before the
\* jump check
Player_resolve(p, k, t, solid_tiles, one_way_tiles, level_width, level_height) ==
    Bind(UpdateTimers(p, t), LAMBDA p1 :
    Bind(CheckDoubleTap(p1, k, t), LAMBDA p2 :
    Bind(HorizontalInput(p2, k), LAMBDA p3 :
    Bind(ApplyGravity(p3), LAMBDA p4 :
    Bind(MoveHorizontal(p4, solid_tiles), LAMBDA p5 :
    Bind(MoveVertical(p5, solid_tiles, one_way_tiles, p1.y + Player_height,
                      level_height, t), LAMBDA p6 :
         ClampToLevel(p6, level_width, level_height)))))))

\* Player.update
Player_update(p, k, t, solid_tiles, one_way_tiles, level_width, level_height) ==
    Bind(Player_resolve(p, k, t, solid_tiles, one_way_tiles, level_width, level_height),
         LAMBDA r : HandleJump(r, k, t))

\* variant of can_shoot: a shot exactly shoot_cooldown ms after the last one
can_shoot_at_cooldown(p, t) == (t - p.last_shot_time) >= shoot_cooldown

can_shoot(p, t) == (t - p.last_shot_time) > shoot_cooldown

\* shoot: the player afterwards and the value returned, << >> for None and
\* a one-element sequence holding the bullet descriptor otherwise
shoot(p, t) ==
    IF ~can_shoot(p, t)
    THEN [player |-> p, result |-> << >>]
    ELSE [player |-> [p EXCEPT !.last_shot_time = t],
          result |-> << [x |-> p.x + Player_width \div 2,
                         y |-> p.y + Player_height \div 2,
                         direction |-> p.facing_direction] >>]

\* variant of Vulnerable: the invulnerability flag is not consulted
Vulnerable_ignoring_invulnerable(p) == ~p.is_dashing /\ p.hearts > 0

\* variant of Vulnerable: the dash is not consulted
Vulnerable_ignoring_dash(p) == ~p.invulnerable /\ p.hearts > 0

\* take_damage, line 537: when a hit counts
Vulnerable(p) == ~p.invulnerable /\ ~p.is_dashing /\ p.hearts > 0

\* variant: a hit does not start the invulnerability
take_damage_without_immunity(p, damage, t) ==
    IF Vulnerable(p)
    THEN [p EXCEPT !.hearts = Max2(0, p.hearts - damage)]
    ELSE p
take_damage(p, damage, t) ==
    IF Vulnerable(p)
    THEN [p EXCEPT !.hearts = Max2(0, p.hearts - damage),
                   !.invulnerable = TRUE,
                   !.invulnerable_time = t]
    ELSE p

heal(p, hearts) ==
    [p EXCEPT !.hearts = Min2(p.hearts + hearts, max_hearts)]

is_alive(p) == p.hearts > 0

reset_position(p, x0, y0) ==
    [p EXCEPT !.x = x0, !.y = y0,
              !.velocity_x = 0, !.velocity_y = 0,
              !.on_ground = FALSE,
              !.hearts = max_hearts,
              !.invulnerable = FALSE,
              !.is_dashing = FALSE,
              !.dash_direction = 0,
              !.has_double_jump = FALSE,
              !.has_landed_since_jump = TRUE,
              !.jump_start_time = 0]

(***************************************************************************)
(* Enemy chassis, BasicEnemy and JumpingEnemy (enemy.py).  Horizontal and  *)
(* vertical velocities are in tenths of a pixel per frame.                 *)
(***************************************************************************)
Enemy_width == 32
Enemy_height == 32
Enemy_gravity == 8
Enemy_max_fall_speed == 100
jump_force == -100
BasicEnemy_speed == 10
JumpingEnemy_speed == 12
\* random.randint(90, 150): the values explored
JumpIntervals == {90, 150}

Enemy_init(spawn, interval) ==
    [kind |-> spawn.type,
     x |-> spawn.x, y |-> spawn.y,
     speed |-> IF spawn.type = "jumping" THEN JumpingEnemy_speed ELSE BasicEnemy_speed,
     health |-> 1, max_health |-> 1,
     direction |-> 1,
     velocity_x |-> 0, velocity_y |-> 0,
     on_ground |-> FALSE,
     active |-> TRUE,
     jump_timer |-> 0,
     jump_interval |-> IF spawn.type = "jumping" THEN interval ELSE 0]

NoEnemy == Enemy_init([x |-> 0, y |-> 0, type |-> "basic"], 0)

Enemy_rect(e) == Rect(e.x, e.y, Enemy_width, Enemy_height)

\* variant: the jump does not wait for the ground
get_movement_behavior_in_the_air(e, next_interval) ==
    IF e.kind = "jumping"
    THEN LET timer == e.jump_timer + 1
             jumps == timer >= e.jump_interval
         IN  [e EXCEPT !.jump_timer = IF jumps THEN 0 ELSE timer,
                       !.velocity_y = IF jumps THEN jump_force ELSE @,
                       !.jump_interval = IF jumps THEN next_interval ELSE @,
                       !.velocity_x = e.direction * e.speed]
    ELSE [e EXCEPT !.velocity_x = e.direction * e.speed]
\* Enemy.get_movement_behavior and JumpingEnemy.get_movement_behavior
get_movement_behavior(e, next_interval) ==
    IF e.kind = "jumping"
    THEN LET timer == e.jump_timer + 1
             jumps == e.on_ground /\ timer >= e.jump_interval
         IN  [e EXCEPT !.jump_timer = IF jumps THEN 0 ELSE timer,
                       !.velocity_y = IF jumps THEN jump_force ELSE @,
                       !.jump_interval = IF jumps THEN next_interval ELSE @,
                       !.velocity_x = e.direction * e.speed]
    ELSE [e EXCEPT !.velocity_x = e.direction * e.speed]

Enemy_ApplyGravity(e) ==
    IF ~e.on_ground
    THEN [e EXCEPT !.velocity_y = Min2(e.velocity_y + Enemy_gravity, Enemy_max_fall_speed)]
    ELSE e

\* variant: the level edges clamp without reversing the direction
Enemy_MoveHorizontal_without_reversal(e, level_width) ==
    LET x1 == TruncTenths(10 * e.x + e.velocity_x)
    IN  IF x1 <= 0
        THEN [e EXCEPT !.x = 0]
        ELSE IF x1 + Enemy_width >= level_width
             THEN [e EXCEPT !.x = level_width - Enemy_width]
             ELSE [e EXCEPT !.x = x1]
\* update, lines 119-128: horizontal move and the level edges
Enemy_MoveHorizontal(e, level_width) ==
    LET x1 == TruncTenths(10 * e.x + e.velocity_x)
    IN  IF x1 <= 0
        THEN [e EXCEPT !.x = 0, !.direction = -e.direction]
        ELSE IF x1 + Enemy_width >= level_width
             THEN [e EXCEPT !.x = level_width - Enemy_width, !.direction = -e.direction]
             ELSE [e EXCEPT !.x = x1]

RECURSIVE Enemy_check_horizontal_collisions(_, _, _)
Enemy_check_horizontal_collisions(e, tiles, i) ==
    IF i > Len(tiles) THEN e
    ELSE LET tile == tiles[i]
             q == IF colliderect(Enemy_rect(e), tile)
                  THEN [e EXCEPT !.x = IF e.velocity_x > 0 THEN tile.x - Enemy_width
                                       ELSE IF e.velocity_x < 0 THEN tile.x + tile.w
                                       ELSE @,
                                 !.direction = -e.direction]
                  ELSE e
         IN  Bind(q, LAMBDA v : Enemy_check_horizontal_collisions(v, tiles, i + 1))

RECURSIVE Enemy_VerticalSolid(_, _, _)
Enemy_VerticalSolid(e, tiles, i) ==
    IF i > Len(tiles) THEN e
    ELSE LET tile == tiles[i]
             q == IF colliderect(Enemy_rect(e), tile)
                  THEN IF e.velocity_y > 0
                       THEN [e EXCEPT !.y = tile.y - Enemy_height,
                                      !.velocity_y = 0,
                                      !.on_ground = TRUE]
                       ELSE IF e.velocity_y < 0
                            THEN [e EXCEPT !.y = tile.y + tile.h,
                                           !.velocity_y = 0]
                            ELSE e
                  ELSE e
         IN  Bind(q, LAMBDA v : Enemy_VerticalSolid(v, tiles, i + 1))

RECURSIVE Enemy_VerticalOneWay(_, _, _)
Enemy_VerticalOneWay(e, tiles, i) ==
    IF i > Len(tiles) THEN e
    ELSE LET tile == tiles[i]
             q == IF colliderect(Enemy_rect(e), tile) /\ e.velocity_y > 0
                  THEN [e EXCEPT !.y = tile.y - Enemy_height,
                                 !.velocity_y = 0,
                                 !.on_ground = TRUE]
                  ELSE e
         IN  Bind(q, LAMBDA v : Enemy_VerticalOneWay(v, tiles, i + 1))

Enemy_ClampToLevelBottom(e, level_height) ==
    IF e.y + Enemy_height >= level_height
    THEN [e EXCEPT !.y = level_height - Enemy_height,
                   !.velocity_y = 0,
                   !.on_ground = TRUE]
    ELSE e

Enemy_check_vertical_collisions(e, solid_tiles, one_way_tiles, level_height) ==
    Bind(Enemy_VerticalSolid([e EXCEPT !.on_ground = FALSE], solid_tiles, 1), LAMBDA e1 :
    Bind(Enemy_VerticalOneWay(e1, one_way_tiles, 1), LAMBDA e2 :
         Enemy_ClampToLevelBottom(e2, level_height)))

Enemy_update(e, next_interval, solid_tiles, one_way_tiles, level_height, level_width) ==
    IF ~e.active THEN e
    ELSE Bind(get_movement_behavior(e, next_interval), LAMBDA e1 :
         Bind(Enemy_ApplyGravity(e1), LAMBDA e2 :
         Bind(Enemy_MoveHorizontal(e2, level_width), LAMBDA e3 :
         Bind(Enemy_check_horizontal_collisions(e3, solid_tiles, 1), LAMBDA e4 :
         Bind([e4 EXCEPT !.y = TruncTenths(10 * e4.y + e4.velocity_y)], LAMBDA e5 :
              Enemy_check_vertical_collisions(e5, solid_tiles, one_way_tiles,
                                              level_height))))))

\* variant: an enemy without health stays active
Enemy_take_damage_without_death(e, damage) ==
    LET health == e.health - damage
    IN  IF health <= 0
        THEN [e EXCEPT !.health = 0]
        ELSE [e EXCEPT !.health = health]

\* Enemy.take_damage, inherited by every variant
Enemy_take_damage(e, damage) ==
    LET health == e.health - damage
    IN  IF health <= 0
        THEN [e EXCEPT !.health = 0, !.active = FALSE]
        ELSE [e EXCEPT !.health = health]

Enemy_is_alive(e) == e.health > 0 /\ e.active

(***************************************************************************)
(* AmbushEnemy (enemy.py).  Positions are whole pixels; velocities and the *)
(* dash target are in tenths of a pixel, rounded down, and distances are   *)
(* compared through their squares.                                         *)
(***************************************************************************)
detection_range == 500
max_dash_distance == 500
max_attack_cooldown == 180
Ambush_dash_speed == 50
return_speed == 20
stay_duration == 120
search_radius == 200
num_checks == 10

Abs(n) == IF n >= 0 THEN n ELSE -n
centerx(r) == r.x + r.w \div 2
centery(r) == r.y + r.h \div 2
Sq(n) == n * n

\* the largest k in lo..hi with k * k <= n
RECURSIVE SqrtBetween(_, _, _)
SqrtBetween(n, lo, hi) ==
    IF lo >= hi THEN lo
    ELSE Bind((lo + hi + 1) \div 2, LAMBDA mid :
              IF mid * mid <= n THEN SqrtBetween(n, mid, hi)
              ELSE SqrtBetween(n, lo, mid - 1))

\* math.sqrt of a sum of squares given in tenths, rounded down
Length(a, b) ==
    Bind(<<Sq(a) + Sq(b), Abs(a) + Abs(b)>>, LAMBDA v : SqrtBetween(v[1], 0, v[2]))

\* a component of the vector (a, b), scaled to the length len
Scaled(a, b, len) == Bind(Length(a, b), LAMBDA s : (len * a) \div s)

\* AmbushEnemy.find_hanging_position
find_hanging_position(spawn_x, spawn_y, solid_tiles, one_way_tiles) ==
    LET all_tiles == solid_tiles \o one_way_tiles
        above == {i \in 1..Len(all_tiles) :
                    /\ Abs(centerx(all_tiles[i]) - spawn_x) <= search_radius
                    /\ all_tiles[i].y + all_tiles[i].h <= spawn_y}
        distance2(i) == Sq(centerx(all_tiles[i]) - spawn_x)
                        + Sq(all_tiles[i].y + all_tiles[i].h - spawn_y)
    IN  IF above = {} THEN <<spawn_x, spawn_y>>
        ELSE LET closest == CHOOSE i \in above :
                               \A j \in above :
                                  \/ distance2(i) < distance2(j)
                                  \/ distance2(i) = distance2(j) /\ i <= j
             IN  <<centerx(all_tiles[closest]) - Enemy_width \div 2,
                   all_tiles[closest].y + all_tiles[closest].h>>

\* AmbushEnemy.__init__ and setup_properties
AmbushEnemy_init(spawn, solid_tiles, one_way_tiles) ==
    LET hang == find_hanging_position(spawn.x, spawn.y, solid_tiles, one_way_tiles)
    IN  [kind |-> "ambush",
         x |-> hang[1], y |-> hang[2],
         speed |-> 0,
         health |-> 2, max_health |-> 2,
         direction |-> 1,
         velocity_x |-> 0, velocity_y |-> 0,
         on_ground |-> FALSE,
         active |-> TRUE,
         is_attacking |-> FALSE,
         attack_cooldown |-> 0,
         is_returning |-> FALSE,
         hanging_position |-> hang,
         attack_start_position |-> << >>,
         target_position |-> << >>,
         is_staying |-> FALSE,
         stay_timer |-> 0]

\* tan(37.5 degrees) = 0.7673269879...; the comparison with this fraction
\* agrees with the floating-point one for every whole dx, dy below 700
is_within_attack_cone(distance_x, distance_y) ==
    /\ distance_y > 0
    /\ Abs(distance_x) * 1000000 <= distance_y * 767327

\* the i-th sample rect on the segment from (start_x, start_y) to the player
check_rect(start_x, start_y, end_x, end_y, i) ==
    Rect(TruncTenths(10 * start_x + i * (end_x - start_x) - 50),
         TruncTenths(10 * start_y + i * (end_y - start_y) - 50), 10, 10)

\* variant: walls do not hide the player
has_clear_path_to_player_through_walls(e, player_x, player_y, solid_tiles) ==
    TRUE

has_clear_path_to_player(e, player_x, player_y, solid_tiles) ==
    \A i \in 1..num_checks :
       \A k \in 1..Len(solid_tiles) :
          ~colliderect(check_rect(centerx(Enemy_rect(e)), centery(Enemy_rect(e)),
                                  player_x, player_y, i),
                       solid_tiles[k])

Ambush_idle(e) == ~e.is_attacking /\ ~e.is_staying /\ ~e.is_returning

\* variant: the cooldown runs in every state
Ambush_Cooldown_in_every_state(e) ==
    IF e.attack_cooldown > 0
    THEN [e EXCEPT !.attack_cooldown = @ - 1]
    ELSE e

\* update, lines 390-393
Ambush_Cooldown(e) ==
    IF e.attack_cooldown > 0 /\ Ambush_idle(e)
    THEN [e EXCEPT !.attack_cooldown = @ - 1]
    ELSE e

\* variant: the dash is aimed at the centre of the player however far
Ambush_StartAttack_without_limit(e, player_x, player_y) ==
    LET cx == centerx(Enemy_rect(e))
        cy == centery(Enemy_rect(e))
        ax == 10 * (player_x + Player_width \div 2 - cx)
        ay == 10 * (player_y + Player_height \div 2 - cy)
        moving == Sq(ax) + Sq(ay) > 0
    IN  [e EXCEPT !.is_attacking = TRUE,
                  !.attack_start_position = <<cx, cy>>,
                  !.target_position = <<10 * cx + ax, 10 * cy + ay>>,
                  !.velocity_x = IF moving THEN Scaled(ax, ay, Ambush_dash_speed) ELSE @,
                  !.velocity_y = IF moving THEN Scaled(ay, ax, Ambush_dash_speed) ELSE @,
                  !.attack_cooldown = max_attack_cooldown]

\* update, lines 409-447: the dash is aimed at the centre of the player
Ambush_StartAttack(e, player_x, player_y) ==
    LET cx == centerx(Enemy_rect(e))
        cy == centery(Enemy_rect(e))
        tdx == 10 * (player_x + Player_width \div 2 - cx)
        tdy == 10 * (player_y + Player_height \div 2 - cy)
        far == Sq(tdx) + Sq(tdy) > Sq(10 * max_dash_distance)
        ax == IF far THEN Scaled(tdx, tdy, 10 * max_dash_distance) ELSE tdx
        ay == IF far THEN Scaled(tdy, tdx, 10 * max_dash_distance) ELSE tdy
        moving == Sq(ax) + Sq(ay) > 0
    IN  [e EXCEPT !.is_attacking = TRUE,
                  !.attack_start_position = <<cx, cy>>,
                  !.target_position = <<10 * cx + ax, 10 * cy + ay>>,
                  !.velocity_x = IF moving THEN Scaled(ax, ay, Ambush_dash_speed) ELSE @,
                  !.velocity_y = IF moving THEN Scaled(ay, ax, Ambush_dash_speed) ELSE @,
                  !.attack_cooldown = max_attack_cooldown]

\* update, lines 395-447
Ambush_Detect(e, player_pos, solid_tiles) ==
    IF e.attack_cooldown = 0 /\ Ambush_idle(e)
    THEN LET distance_x == player_pos[1] - centerx(Enemy_rect(e))
             distance_y == player_pos[2] - centery(Enemy_rect(e))
         IN  IF /\ Sq(distance_x) + Sq(distance_y) <= Sq(detection_range)
                /\ is_within_attack_cone(distance_x, distance_y)
                /\ has_clear_path_to_player(e, player_pos[1], player_pos[2], solid_tiles)
             THEN Ambush_StartAttack(e, player_pos[1], player_pos[2])
             ELSE e
    ELSE e

\* variant: the stay begins with the attack flag still up
Ambush_Stay_still_attacking(e) ==
    [e EXCEPT !.is_staying = TRUE,
              !.stay_timer = stay_duration,
              !.velocity_x = 0,
              !.velocity_y = 0,
              !.attack_start_position = << >>]
\* update, lines 464-470 and 483-492: the dash is over
Ambush_Stay(e) ==
    [e EXCEPT !.is_attacking = FALSE,
              !.is_staying = TRUE,
              !.stay_timer = stay_duration,
              !.velocity_x = 0,
              !.velocity_y = 0,
              !.attack_start_position = << >>]

\* update, lines 450-496
Ambush_Attack(e) ==
    LET cx == centerx(Enemy_rect(e))
        cy == centery(Enemy_rect(e))
        target_x == e.target_position[1]
        target_y == e.target_position[2]
        from_start2 == Sq(cx - e.attack_start_position[1])
                       + Sq(cy - e.attack_start_position[2])
        to_target2 == Sq(target_x - 10 * cx) + Sq(target_y - 10 * cy)
        next_center_x == 10 * e.x + e.velocity_x + 10 * (Enemy_width \div 2)
        next_center_y == 10 * e.y + e.velocity_y + 10 * (Enemy_height \div 2)
        next_to_target2 == Sq(target_x - next_center_x) + Sq(target_y - next_center_y)
    IN  IF to_target2 <= Sq(10 * 20) \/ from_start2 >= Sq(max_dash_distance)
        THEN Ambush_Stay(e)
        ELSE IF next_to_target2 > to_target2
             THEN Ambush_Stay([e EXCEPT !.x = TruncTenths(target_x) - Enemy_width \div 2,
                                        !.y = TruncTenths(target_y) - Enemy_height \div 2])
             ELSE [e EXCEPT !.x = TruncTenths(10 * e.x + e.velocity_x),
                            !.y = TruncTenths(10 * e.y + e.velocity_y)]

\* variant: the enemy is idle again as soon as the stay is over
Ambush_Wait_without_return(e) ==
    LET timer == e.stay_timer - 1
    IN  [e EXCEPT !.stay_timer = timer,
                  !.velocity_x = 0,
                  !.velocity_y = 0,
                  !.is_staying = ~(timer <= 0),
                  !.target_position = IF timer <= 0 THEN << >> ELSE @]

\* update, lines 499-511
Ambush_Wait(e) ==
    LET timer == e.stay_timer - 1
    IN  [e EXCEPT !.stay_timer = timer,
                  !.velocity_x = 0,
                  !.velocity_y = 0,
                  !.is_staying = ~(timer <= 0),
                  !.is_returning = timer <= 0,
                  !.target_position = IF timer <= 0 THEN << >> ELSE @]

\* variant: the return ends where the enemy is, without the snap
Ambush_Return_without_snap(e) ==
    LET distance_x == e.hanging_position[1] - e.x
        distance_y == e.hanging_position[2] - e.y
    IN  IF Sq(distance_x) + Sq(distance_y) > Sq(5)
        THEN LET vx == Scaled(10 * distance_x, 10 * distance_y, return_speed)
                 vy == Scaled(10 * distance_y, 10 * distance_x, return_speed)
             IN  [e EXCEPT !.velocity_x = vx,
                           !.velocity_y = vy,
                           !.x = TruncTenths(10 * e.x + vx),
                           !.y = TruncTenths(10 * e.y + vy)]
        ELSE [e EXCEPT !.is_returning = FALSE]

\* variant: the return ends only on the hang position itself
Ambush_Return_to_the_pixel(e) ==
    LET distance_x == e.hanging_position[1] - e.x
        distance_y == e.hanging_position[2] - e.y
    IN  IF Sq(distance_x) + Sq(distance_y) > 0
        THEN LET vx == Scaled(10 * distance_x, 10 * distance_y, return_speed)
                 vy == Scaled(10 * distance_y, 10 * distance_x, return_speed)
             IN  [e EXCEPT !.velocity_x = vx,
                           !.velocity_y = vy,
                           !.x = TruncTenths(10 * e.x + vx),
                           !.y = TruncTenths(10 * e.y + vy)]
        ELSE [e EXCEPT !.x = e.hanging_position[1],
                       !.y = e.hanging_position[2],
                       !.velocity_x = 0,
                       !.velocity_y = 0,
                       !.is_returning = FALSE]

\* update, lines 514-537
Ambush_Return(e) ==
    LET distance_x == e.hanging_position[1] - e.x
        distance_y == e.hanging_position[2] - e.y
    IN  IF Sq(distance_x) + Sq(distance_y) > Sq(5)
        THEN LET vx == Scaled(10 * distance_x, 10 * distance_y, return_speed)
                 vy == Scaled(10 * distance_y, 10 * distance_x, return_speed)
             IN  [e EXCEPT !.velocity_x = vx,
                           !.velocity_y = vy,
                           !.x = TruncTenths(10 * e.x + vx),
                           !.y = TruncTenths(10 * e.y + vy)]
        ELSE [e EXCEPT !.x = e.hanging_position[1],
                       !.y = e.hanging_position[2],
                       !.velocity_x = 0,
                       !.velocity_y = 0,
                       !.is_returning = FALSE]

\* update, lines 540-547
Ambush_Hang(e) ==
    [e EXCEPT !.velocity_x = 0,
              !.velocity_y = 0,
              !.x = e.hanging_position[1],
              !.y = e.hanging_position[2]]

\* update, lines 550-561: the level boundaries, outside a dash and a return
Ambush_ClampToLevel(e, level_height, level_width) ==
    IF e.is_attacking \/ e.is_returning THEN e
    ELSE [e EXCEPT !.x = IF e.x <= 0 THEN 0
                         ELSE IF e.x + Enemy_width >= level_width
                              THEN level_width - Enemy_width
                              ELSE @,
                   !.y = IF e.y <= 0 THEN 0
                         ELSE IF e.y + Enemy_height >= level_height
                              THEN level_height - Enemy_height
                              ELSE @]

\* update, lines 449-547: the branch of the state the enemy is in
Ambush_Act(e) ==
    IF e.is_attacking /\ e.target_position # << >> /\ e.attack_start_position # << >>
    THEN Ambush_Attack(e)
    ELSE IF e.is_staying THEN Ambush_Wait(e)
    ELSE IF e.is_returning THEN Ambush_Return(e)
    ELSE Ambush_Hang(e)

AmbushEnemy_update(e, solid_tiles, one_way_tiles, level_height, level_width, player_pos) ==
    IF ~e.active THEN e
    ELSE Bind(Ambush_Cooldown(e), LAMBDA e1 :
         Bind(Ambush_Detect(e1, player_pos, solid_tiles), LAMBDA e2 :
         Bind(Ambush_Act(e2), LAMBDA e3 :
              Ambush_ClampToLevel(e3, level_height, level_width))))

(***************************************************************************)
(* BossEnemy and BossBullet (enemy.py).  The rect of the boss keeps the    *)
(* 32 x 32 size Enemy.__init__ gave it; self.width = 64 only enters the    *)
(* aim of the jump-shoot.  Bullet velocities are in tenths of a pixel; a   *)
(* component that is zero up to floating-point rounding is zero.           *)
(***************************************************************************)
Boss_width == 64
Boss_height == 64
min_attack_cooldown == 120
Boss_speed == 8
Boss_jump_force == -150
BossBullet_size == 12
BossBullet_margin == 100

BossBullet_init(x, y, velocity_x, velocity_y) ==
    [x |-> x, y |-> y, velocity_x |-> velocity_x, velocity_y |-> velocity_y,
     active |-> TRUE]

BossBullet_rect(b) == Rect(b.x, b.y, BossBullet_size, BossBullet_size)

BossBullet_update(b, level_width, level_height) ==
    LET x1 == TruncTenths(10 * b.x + b.velocity_x)
        y1 == TruncTenths(10 * b.y + b.velocity_y)
        out == \/ x1 + BossBullet_size < -BossBullet_margin
               \/ x1 > level_width + BossBullet_margin
               \/ y1 + BossBullet_size < -BossBullet_margin
               \/ y1 > level_height + BossBullet_margin
    IN  [b EXCEPT !.x = x1, !.y = y1, !.active = IF out THEN FALSE ELSE @]

BossBullet_hit(b) == [b EXCEPT !.active = FALSE]

BossEnemy_init(spawn) ==
    [kind |-> "boss",
     x |-> spawn.x, y |-> spawn.y,
     speed |-> Boss_speed,
     health |-> 30, max_health |-> 30,
     direction |-> 1,
     velocity_x |-> 0, velocity_y |-> 0,
     on_ground |-> FALSE,
     active |-> TRUE,
     current_attack |-> "none",
     attack_cooldown |-> 0,
     attack_counter |-> 0,
     jump_shoot_state |-> "none",
     jump_shoot_bullets_fired |-> 0,
     jump_shoot_fire_timer |-> 0,
     jump_shoot_target |-> << >>,
     jump_slam_state |-> "none",
     slam_bullets_created |-> FALSE,
     slam_recovery_timer |-> 0,
     ultimate_state |-> "none",
     ultimate_timer |-> 0,
     ultimate_shoot_timer |-> 0,
     ultimate_angle |-> 0,
     ultimate_position |-> << >>,
     bullets |-> << >>]

\* variant: every third attack is the ultimate
choose_attack_every_third(e, choice) ==
    LET counter == e.attack_counter + 1
    IN  [enemy |-> [e EXCEPT !.attack_counter = counter],
         attack |-> IF counter % 3 = 0 THEN "ultimate" ELSE choice]

\* BossEnemy.choose_attack; choice is what random.choice returns
choose_attack(e, choice) ==
    LET counter == e.attack_counter + 1
    IN  [enemy |-> [e EXCEPT !.attack_counter = counter],
         attack |-> IF counter % 4 = 0 THEN "ultimate" ELSE choice]

\* variant: the cooldown runs twice as fast
Boss_Cooldown_twice(e) ==
    IF e.attack_cooldown > 0
    THEN [e EXCEPT !.attack_cooldown = Max2(@ - 2, 0)]
    ELSE e

\* update, lines 710-712
Boss_Cooldown(e) ==
    IF e.attack_cooldown > 0
    THEN [e EXCEPT !.attack_cooldown = @ - 1]
    ELSE e

\* update, lines 714-718
Boss_UpdateBullets(e, level_width, level_height) ==
    LET moved == [i \in 1..Len(e.bullets) |->
                     BossBullet_update(e.bullets[i], level_width, level_height)]
    IN  [e EXCEPT !.bullets = SelectSeq(moved, LAMBDA b : b.active)]

\* update, lines 720-749
Boss_StartAttack(e, choice, player_pos) ==
    IF e.current_attack = "none" /\ e.attack_cooldown = 0
    THEN LET c == choose_attack(e, choice)
             q == [c.enemy EXCEPT !.current_attack = c.attack]
         IN  CASE c.attack = "jump_shoot" ->
                    [q EXCEPT !.jump_shoot_state = "rising",
                              !.jump_shoot_bullets_fired = 0,
                              !.jump_shoot_fire_timer = 0,
                              !.jump_shoot_target = <<player_pos[1] - Boss_width \div 2,
                                                      player_pos[2] - 150>>]
               [] c.attack = "jump_slam" ->
                    [q EXCEPT !.jump_slam_state = "jumping",
                              !.velocity_y = (Boss_jump_force * 8) \div 10,
                              !.slam_bullets_created = FALSE,
                              !.slam_recovery_timer = 0]
               [] OTHER ->
                    [q EXCEPT !.ultimate_state = "rising",
                              !.ultimate_timer = 0,
                              !.ultimate_shoot_timer = 0,
                              !.ultimate_angle = 0,
                              !.ultimate_position = <<e.x, e.y - 200>>]
    ELSE e

\* BossEnemy.normal_movement
normal_movement(e, solid_tiles, one_way_tiles, level_height, level_width) ==
    Bind(Enemy_ApplyGravity([e EXCEPT !.velocity_x = e.direction * e.speed]), LAMBDA e2 :
    Bind(Enemy_MoveHorizontal(e2, level_width), LAMBDA e3 :
    Bind(Enemy_check_horizontal_collisions(e3, solid_tiles, 1), LAMBDA e4 :
    Bind([e4 EXCEPT !.y = TruncTenths(10 * e4.y + e4.velocity_y)], LAMBDA e5 :
         Enemy_check_vertical_collisions(e5, solid_tiles, one_way_tiles,
                                         level_height)))))

\* a step of at most n pixels from x toward target_x; within n pixels the
\* rect stays (rising) or is put on the target (hovering)
StepToward(x, target_x, n, snap) ==
    IF Abs(x - target_x) > n
    THEN IF x < target_x THEN x + n ELSE x - n
    ELSE IF snap THEN target_x ELSE x

\* BossEnemy.fire_bullet_spread: 6 px per frame down-right, down, down-left
fire_bullet_spread(e) ==
    LET center_x == centerx(Enemy_rect(e))
        center_y == centery(Enemy_rect(e))
    IN  [e EXCEPT !.bullets = @ \o << BossBullet_init(center_x, center_y, 42, 42),
                                      BossBullet_init(center_x, center_y, 0, 60),
                                      BossBullet_init(center_x, center_y, -42, 42) >>]

\* the falling gravity of the attacks, scaled by factor tenths
Boss_Fall(e, factor, solid_tiles, one_way_tiles, level_height) ==
    LET vy == Min2(e.velocity_y + (Enemy_gravity * factor) \div 10,
                   (Enemy_max_fall_speed * factor) \div 10)
    IN  Enemy_check_vertical_collisions(
            [e EXCEPT !.velocity_y = vy, !.y = TruncTenths(10 * e.y + vy)],
            solid_tiles, one_way_tiles, level_height)

\* BossEnemy.execute_jump_shoot
execute_jump_shoot(e0, solid_tiles, one_way_tiles, level_height, level_width, player_pos) ==
    LET e == [e0 EXCEPT !.velocity_x = 0, !.velocity_y = 0]
    IN  CASE e.jump_shoot_state = "rising" ->
               LET target_x == player_pos[1] - Boss_width \div 2
                   target_y == player_pos[2] - 150
               IN  [e EXCEPT !.jump_shoot_target = <<target_x, target_y>>,
                             !.x = StepToward(e.x, target_x, 5, FALSE),
                             !.y = IF e.y > target_y THEN e.y - 5 ELSE @,
                             !.jump_shoot_state = IF e.y > target_y THEN @ ELSE "hovering"]
          [] e.jump_shoot_state = "hovering" ->
               LET timer == e.jump_shoot_fire_timer + 1
                   fires == timer >= 15 /\ e.jump_shoot_bullets_fired < 3
                   fired == IF fires THEN e.jump_shoot_bullets_fired + 1
                            ELSE e.jump_shoot_bullets_fired
                   q == [e EXCEPT !.x = StepToward(e.x, player_pos[1] - Boss_width \div 2,
                                                   3, TRUE),
                                  !.y = e.jump_shoot_target[2],
                                  !.jump_shoot_fire_timer = IF fires THEN 0 ELSE timer,
                                  !.jump_shoot_bullets_fired = fired,
                                  !.jump_shoot_state = IF fired >= 3 THEN "falling" ELSE @]
               IN  IF fires THEN fire_bullet_spread(q) ELSE q
          [] e.jump_shoot_state = "falling" ->
               Bind(Boss_Fall(e, 10, solid_tiles, one_way_tiles, level_height), LAMBDA q :
                    IF q.on_ground
                    THEN [q EXCEPT !.current_attack = "none",
                                   !.jump_shoot_state = "none",
                                   !.attack_cooldown = min_attack_cooldown,
                                   !.velocity_x = 0,
                                   !.velocity_y = 0]
                    ELSE q)
          [] OTHER -> e

\* BossEnemy.create_slam_projectiles: three to the left, three to the right
create_slam_projectiles(e) ==
    LET center_y == centery(Enemy_rect(e))
    IN  [e EXCEPT !.bullets = @ \o
            [i \in 1..3 |-> BossBullet_init(e.x, center_y + (i - 1) * 8 - 8, -80, 0)] \o
            [i \in 1..3 |-> BossBullet_init(e.x + Enemy_width, center_y + (i - 1) * 8 - 8,
                                            80, 0)]]

\* BossEnemy.execute_jump_slam
execute_jump_slam(e0, solid_tiles, one_way_tiles, level_height, level_width) ==
    LET e == [e0 EXCEPT !.velocity_x = 0]
    IN  CASE e.jump_slam_state = "jumping" ->
               Bind(Boss_Fall(e, 15, solid_tiles, one_way_tiles, level_height), LAMBDA q :
               Bind(IF q.velocity_y > 0 /\ ~q.slam_bullets_created
                    THEN [create_slam_projectiles(q) EXCEPT !.slam_bullets_created = TRUE]
                    ELSE q, LAMBDA r :
                    IF r.on_ground THEN [r EXCEPT !.jump_slam_state = "slamming"] ELSE r))
          [] e.jump_slam_state = "slamming" ->
               LET timer == (IF e.slam_recovery_timer = 0 THEN 30
                             ELSE e.slam_recovery_timer) - 1
               IN  IF timer <= 0
                   THEN [e EXCEPT !.velocity_y = 0,
                                  !.current_attack = "none",
                                  !.jump_slam_state = "none",
                                  !.slam_recovery_timer = 0,
                                  !.attack_cooldown = min_attack_cooldown]
                   ELSE [e EXCEPT !.velocity_y = 0,
                                  !.slam_recovery_timer = timer]
          [] OTHER -> e

\* 5 * cos and 5 * sin of the multiples of 30 degrees, in tenths
Circle5 == <<50, 43, 25, 0, -25, -43, -50, -43, -25, 0, 25, 43>>

\* BossEnemy.fire_circular_bullet
fire_circular_bullet(e) ==
    LET k == (e.ultimate_angle \div 30) % 12
    IN  [e EXCEPT !.bullets = @ \o
            << BossBullet_init(centerx(Enemy_rect(e)), centery(Enemy_rect(e)),
                               Circle5[k + 1], Circle5[((k + 9) % 12) + 1]) >>]

\* BossEnemy.execute_ultimate
execute_ultimate(e, solid_tiles, one_way_tiles, level_height, level_width) ==
    CASE e.ultimate_state = "rising" ->
           IF e.y > e.ultimate_position[2]
           THEN [e EXCEPT !.velocity_x = 0, !.velocity_y = 0, !.y = @ - 5]
           ELSE [e EXCEPT !.velocity_x = 0, !.velocity_y = 0,
                          !.ultimate_state = "shooting",
                          !.ultimate_timer = 180]
      [] e.ultimate_state = "shooting" ->
           LET shoot_timer == e.ultimate_shoot_timer + 1
               fires == shoot_timer >= 5
               q == IF fires THEN fire_circular_bullet(e) ELSE e
               timer == e.ultimate_timer - 1
           IN  [q EXCEPT !.velocity_x = 0, !.velocity_y = 0,
                         !.ultimate_shoot_timer = IF fires THEN 0 ELSE shoot_timer,
                         !.ultimate_angle = IF fires THEN @ + 30 ELSE @,
                         !.ultimate_timer = timer,
                         !.ultimate_state = IF timer <= 0 THEN "descending" ELSE @]
      [] e.ultimate_state = "descending" ->
           Bind(Boss_Fall([e EXCEPT !.velocity_x = 0], 10, solid_tiles, one_way_tiles,
                          level_height), LAMBDA q :
                IF q.on_ground
                THEN [q EXCEPT !.velocity_y = 0,
                               !.velocity_x = 0,
                               !.current_attack = "none",
                               !.ultimate_state = "none",
                               !.attack_cooldown = min_attack_cooldown * 2]
                ELSE q)
      [] OTHER -> e

\* update, lines 751-760
Boss_Execute(e, solid_tiles, one_way_tiles, level_height, level_width, player_pos) ==
    CASE e.current_attack = "jump_shoot" ->
           execute_jump_shoot(e, solid_tiles, one_way_tiles, level_height, level_width,
                              player_pos)
      [] e.current_attack = "jump_slam" ->
           execute_jump_slam(e, solid_tiles, one_way_tiles, level_height, level_width)
      [] e.current_attack = "ultimate" ->
           execute_ultimate(e, solid_tiles, one_way_tiles, level_height, level_width)
      [] OTHER ->
           normal_movement(e, solid_tiles, one_way_tiles, level_height, level_width)

BossEnemy_update(e, choice, solid_tiles, one_way_tiles, level_height, level_width, player_pos) ==
    IF ~e.active THEN e
    ELSE Bind(Boss_Cooldown(e), LAMBDA e1 :
         Bind(Boss_UpdateBullets(e1, level_width, level_height), LAMBDA e2 :
         Bind(Boss_StartAttack(e2, choice, player_pos), LAMBDA e3 :
              Boss_Execute(e3, solid_tiles, one_way_tiles, level_height, level_width,
                           player_pos))))

(***************************************************************************)
(* Bullet (bullet.py), the projectile of the player.  A projectile in      *)
(* flight is a Bullet or a BossBullet together with the class it is of.    *)
(***************************************************************************)
Bullet_width == 16
Bullet_height == 12
Bullet_speed == 10

Bullet_init(x, y, direction) ==
    [x |-> x, y |-> y, direction |-> direction, speed |-> Bullet_speed, active |-> TRUE]

Bullet_rect(b) == Rect(b.x, b.y, Bullet_width, Bullet_height)

Bullet_update(b, level_width, level_height) ==
    LET x1 == b.x + b.speed * b.direction
        out == \/ x1 + Bullet_width < 0
               \/ x1 > level_width
               \/ b.y + Bullet_height < 0
               \/ b.y > level_height
    IN  [b EXCEPT !.x = x1, !.active = IF out THEN FALSE ELSE @]

Bullet_hit(b) == [b EXCEPT !.active = FALSE]

NoProjectile == << >>

Projectile_update(p, level_width, level_height) ==
    IF p.class = "Bullet"
    THEN [p EXCEPT !.body = Bullet_update(@, level_width, level_height)]
    ELSE [p EXCEPT !.body = BossBullet_update(@, level_width, level_height)]

Projectile_hit(p) ==
    IF p.class = "Bullet"
    THEN [p EXCEPT !.body = Bullet_hit(@)]
    ELSE [p EXCEPT !.body = BossBullet_hit(@)]

(***************************************************************************)
(* Game (main.py).  A world is the level, the player and the fields of     *)
(* Game that a playing frame reads and writes; Game.update is the          *)
(* composition of its passes in the order of the source.                   *)
(***************************************************************************)
SCREEN_WIDTH == 1000
SCREEN_HEIGHT == 800

\* Game.__init__: no level is loaded
NoGame ==
    [state |-> "main_menu", game_over |-> FALSE,
     camera_x |-> 0, camera_y |-> 0,
     enemies |-> << >>, bullets |-> << >>]

\* Game.spawn_enemies: one enemy per spawn marker, in the order of the markers
spawn_enemies(spawns, solid_tiles, one_way_tiles, interval) ==
    [i \in 1..Len(spawns) |->
        CASE spawns[i].type = "ambush" ->
               AmbushEnemy_init(spawns[i], solid_tiles, one_way_tiles)
          [] spawns[i].type = "boss" -> BossEnemy_init(spawns[i])
          [] OTHER -> Enemy_init(spawns[i], interval)]

World(lv, p, g) ==
    [level |-> lv, player |-> p, state |-> g.state, game_over |-> g.game_over,
     camera_x |-> g.camera_x, camera_y |-> g.camera_y,
     enemies |-> g.enemies, bullets |-> g.bullets]

\* lines 203-209: each enemy is updated with the position the player has now
Game_update_enemy(e, w, choice, next_interval) ==
    CASE e.kind = "ambush" ->
           AmbushEnemy_update(e, w.level.solid_tiles, w.level.one_way_tiles,
                              w.level.height, w.level.width,
                              <<w.player.x, w.player.y>>)
      [] e.kind = "boss" ->
           BossEnemy_update(e, choice, w.level.solid_tiles, w.level.one_way_tiles,
                            w.level.height, w.level.width,
                            <<w.player.x, w.player.y>>)
      [] OTHER ->
           Enemy_update(e, next_interval, w.level.solid_tiles,
                        w.level.one_way_tiles, w.level.height, w.level.width)

Game_update_player(w, k, t) ==
    [w EXCEPT !.player = Player_update(@, k, t, w.level.solid_tiles,
                                       w.level.one_way_tiles,
                                       w.level.width, w.level.height)]

\* choices[i] is what random.choice returns to the i-th enemy in this frame
Game_update_enemies(w, choices, next_interval) ==
    [w EXCEPT !.enemies =
        [i \in 1..Len(w.enemies) |->
            Game_update_enemy(w.enemies[i], w, choices[i], next_interval)]]

\* lines 211-216: bullets move, and those that left the level are dropped
Game_update_bullets(w) ==
    LET moved == [i \in 1..Len(w.bullets) |->
                     Bullet_update(w.bullets[i], w.level.width, w.level.height)]
    IN  [w EXCEPT !.bullets = SelectSeq(moved, LAMBDA b : b.active)]

\* the first active enemy the rect overlaps, 0 if none
FirstHit(r, enemies) ==
    LET hit == {i \in 1..Len(enemies) :
                   enemies[i].active /\ colliderect(r, Enemy_rect(enemies[i]))}
    IN  IF hit = {} THEN 0 ELSE CHOOSE i \in hit : \A j \in hit : i <= j

\* variant: the bullet that hurt an enemy flies on
Game_bullet_hits_and_flies_on(w, i) ==
    LET b == w.bullets[i]
        n == IF b.active THEN FirstHit(Bullet_rect(b), w.enemies) ELSE 0
    IN  IF n = 0 THEN w
        ELSE LET e == Enemy_take_damage(w.enemies[n], 1)
             IN  [w EXCEPT !.enemies[n] = e,
                           !.level = IF e.kind = "boss" /\ ~Enemy_is_alive(e)
                                     THEN remove_boss_tiles(@)
                                     ELSE @]
\* lines 219-232, one bullet: it hurts the first active enemy it overlaps,
\* and the death of a boss removes the boss tiles
Game_bullet_hits(w, i) ==
    LET b == w.bullets[i]
        n == IF b.active THEN FirstHit(Bullet_rect(b), w.enemies) ELSE 0
    IN  IF n = 0 THEN w
        ELSE LET e == Enemy_take_damage(w.enemies[n], 1)
             IN  [w EXCEPT !.enemies[n] = e,
                           !.bullets[i] = Bullet_hit(b),
                           !.level = IF e.kind = "boss" /\ ~Enemy_is_alive(e)
                                     THEN remove_boss_tiles(@)
                                     ELSE @]

RECURSIVE BulletPass(_, _)
BulletPass(w, i) ==
    IF i > Len(w.bullets) THEN w
    ELSE BulletPass(Game_bullet_hits(w, i), i + 1)

Game_bullet_collisions(w) == BulletPass(w, 1)

\* lines 237-242: one hit at most from the enemies the player overlaps
Game_player_collisions(w, t) ==
    IF FirstHit(Player_rect(w.player), w.enemies) # 0
    THEN [w EXCEPT !.player = take_damage(@, 1, t)]
    ELSE w

\* the first active bullet of the boss the rect overlaps, 0 if none
FirstBossBullet(r, bullets) ==
    LET hit == {i \in 1..Len(bullets) :
                   bullets[i].active /\ colliderect(r, BossBullet_rect(bullets[i]))}
    IN  IF hit = {} THEN 0 ELSE CHOOSE i \in hit : \A j \in hit : i <= j

\* lines 245-252, one enemy: the first bullet of an active boss that
\* overlaps the player hurts the player and is spent
Game_boss_bullet_hits(w, i, t) ==
    LET e == w.enemies[i]
        n == IF e.kind = "boss" /\ e.active
             THEN FirstBossBullet(Player_rect(w.player), e.bullets)
             ELSE 0
    IN  IF n = 0 THEN w
        ELSE [w EXCEPT !.player = take_damage(@, 1, t),
                       !.enemies[i].bullets[n] = BossBullet_hit(@)]

RECURSIVE BossBulletPass(_, _, _)
BossBulletPass(w, i, t) ==
    IF i > Len(w.enemies) THEN w
    ELSE BossBulletPass(Game_boss_bullet_hits(w, i, t), i + 1, t)

Game_boss_bullet_collisions(w, t) == BossBulletPass(w, 1, t)

\* lines 254-259: every collectible the player overlaps is collected
Game_collect(w) ==
    [w EXCEPT !.level.collectibles =
        [i \in 1..Len(@) |->
            IF ~@[i].collected /\ colliderect(Player_rect(w.player), @[i].rect)
            THEN [@[i] EXCEPT !.collected = TRUE]
            ELSE @[i]]]

\* variant: the exit door alone completes the level
check_level_complete_at_the_door(lv, p) ==
    /\ lv.exit_rect # NoRect
    /\ colliderect(Player_rect(p), lv.exit_rect)

check_level_complete(lv, p) ==
    /\ lv.exit_rect # NoRect
    /\ LET total == Len(lv.collectibles)
           collected == Cardinality({i \in 1..total : lv.collectibles[i].collected})
       IN  total = 0 \/ collected = total
    /\ colliderect(Player_rect(p), lv.exit_rect)

\* lines 261-263 and complete_level
Game_complete(w) ==
    IF check_level_complete(w.level, w.player) /\ ~w.game_over
    THEN [w EXCEPT !.state = "level_complete"]
    ELSE w

update_camera(w) ==
    LET target_x == centerx(Player_rect(w.player)) - SCREEN_WIDTH \div 2
        target_y == centery(Player_rect(w.player)) - SCREEN_HEIGHT \div 2
    IN  [w EXCEPT !.camera_x = Max2(0, Min2(target_x, w.level.width - SCREEN_WIDTH)),
                  !.camera_y = Max2(0, Min2(target_y, w.level.height - SCREEN_HEIGHT))]

\* lines 268-270
Game_check_dead(w) ==
    IF ~is_alive(w.player) THEN [w EXCEPT !.game_over = TRUE] ELSE w

\* variant: the enemies are updated before the player
Game_update_enemies_first(w, k, t, choices, next_interval) ==
    IF w.state # "playing" \/ w.game_over THEN w
    ELSE
    Bind(Game_update_enemies(w, choices, next_interval), LAMBDA w1 :
    Bind(Game_update_player(w1, k, t), LAMBDA w2 :
    Bind(Game_update_bullets(w2), LAMBDA w3 :
    Bind(Game_bullet_collisions(w3), LAMBDA w4 :
    Bind(Game_player_collisions(w4, t), LAMBDA w5 :
    Bind(Game_boss_bullet_collisions(w5, t), LAMBDA w6 :
    Bind(Game_collect(w6), LAMBDA w7 :
    Bind(Game_complete(w7), LAMBDA w8 :
    Bind(update_camera(w8), LAMBDA w9 :
         Game_check_dead(w9))))))))))

\* Game.update in the playing state, lines 190-270
Game_update(w, k, t, choices, next_interval) ==
    IF w.state # "playing" \/ w.game_over THEN w
    ELSE
    Bind(Game_update_player(w, k, t), LAMBDA w1 :
    Bind(Game_update_enemies(w1, choices, next_interval), LAMBDA w2 :
    Bind(Game_update_bullets(w2), LAMBDA w3 :
    Bind(Game_bullet_collisions(w3), LAMBDA w4 :
    Bind(Game_player_collisions(w4, t), LAMBDA w5 :
    Bind(Game_boss_bullet_collisions(w5, t), LAMBDA w6 :
    Bind(Game_collect(w6), LAMBDA w7 :
    Bind(Game_complete(w7), LAMBDA w8 :
    Bind(update_camera(w8), LAMBDA w9 :
         Game_check_dead(w9))))))))))

\* the K_f event of Game.handle_events, lines 159-164
Game_shoot(w, t) ==
    IF w.state # "playing" \/ w.game_over THEN w
    ELSE LET r == shoot(w.player, t)
         IN  IF r.result = << >> THEN [w EXCEPT !.player = r.player]
             ELSE [w EXCEPT !.player = r.player,
                            !.bullets = Append(@, Bullet_init(r.result[1].x,
                                                              r.result[1].y,
                                                              r.result[1].direction))]

(***************************************************************************)
(* History of the run, kept beside the program state: what the keyboard    *)
(* and the player really did, independent of the player's own bookkeeping. *)
(* A time of -1 means "never".                                             *)
(***************************************************************************)
HistInit ==
    [prevKeys |-> NoKeys,
     leftEdge |-> -1, rightEdge |-> -1,
     lastDash |-> -1, dashWindow |-> FALSE, dashLive |-> FALSE,
     lastHurt |-> -1, hurtWindow |-> FALSE, hurtLive |-> FALSE,
     lastGrounded |-> -1,
     groundJump |-> -1,
     airJumps |-> 0,
     lastShot |-> -1, shot |-> << >>,
     frames |-> 0,
     idleUpdates |-> 0, attacks |-> 0,
     calmUpdates |-> 0, lastAttack |-> "none",
     origin |-> << >>, flown |-> 0,
     standby |-> FALSE,
     sinceJump |-> 0, jumps |-> 0]

\* a dash started in the update that produced q at time t
DashStarted(q, t) == q.is_dashing /\ q.dash_start_time = t

\* a ground jump happened in the update that produced q at time t
GroundJumped(q, t) == q.velocity_y = jump_speed /\ q.jump_start_time = t

\* an air jump happened in the update that turned the resolved state r into q
AirJumped(r, q, t) ==
    /\ ~GroundJumped(q, t)
    /\ q.velocity_y = jump_speed
    /\ (r.velocity_y # jump_speed \/ r.has_double_jump # q.has_double_jump)

HistAfterUpdate(h, r, q, k, t) ==
    LET dashOver == t - h.lastDash > dash_duration
        hurtOver == t - h.lastHurt > invulnerable_duration
    IN  [h EXCEPT
           !.prevKeys = k,
           !.leftEdge = IF k.left /\ ~h.prevKeys.left THEN t ELSE @,
           !.rightEdge = IF k.right /\ ~h.prevKeys.right THEN t ELSE @,
           !.lastDash = IF DashStarted(q, t) THEN t ELSE @,
           !.dashWindow = IF DashStarted(q, t) THEN TRUE
                          ELSE IF dashOver THEN FALSE ELSE @,
           !.dashLive = IF DashStarted(q, t) THEN TRUE
                        ELSE IF dashOver THEN FALSE ELSE @,
           !.hurtWindow = IF hurtOver THEN FALSE ELSE @,
           !.hurtLive = IF hurtOver THEN FALSE ELSE @,
           !.lastGrounded = IF q.on_ground THEN t ELSE @,
           !.groundJump = IF GroundJumped(q, t) THEN t ELSE @,
           !.airJumps = IF GroundJumped(q, t) THEN 0
                        ELSE IF AirJumped(r, q, t) THEN @ + 1 ELSE @]

\* a take_damage call that hurt opens a window of invulnerable_duration ms
HistAfterDamage(h, p, q, t) ==
    IF q.hearts < p.hearts
    THEN [h EXCEPT !.lastHurt = t, !.hurtWindow = TRUE, !.hurtLive = TRUE]
    ELSE h

HistAfterReset(h) ==
    [h EXCEPT !.groundJump = -1, !.airJumps = 0,
              !.dashLive = FALSE, !.hurtLive = FALSE]

(***************************************************************************)
(* Operations                                                              *)
(***************************************************************************)
Op(name, d) == [op |-> name, d |-> d]

\* one frame of Game.update for the player: the clock advances by dt and
\* Player.update runs with the keys k; no frame starts after the reading end
Update(k, dt, end) ==
    /\ now + dt <= end
    /\ now' = now + dt
    /\ \E r \in {Player_resolve(player, k, now', level.solid_tiles,
                                 level.one_way_tiles, level.width, level.height)} :
         \E q \in {HandleJump(r, k, now')} :
            /\ player' = q
            /\ hist' = HistAfterUpdate(hist, r, q, k, now')
    /\ lastOp' = Op("update", 0)
    /\ UNCHANGED <<level, start, enemy, projectile, game>>

TakeDamage(d) ==
    /\ \E q \in {take_damage(player, d, now)} :
          /\ player' = q
          /\ hist' = HistAfterDamage(hist, player, q, now)
    /\ lastOp' = Op("take_damage", d)
    /\ UNCHANGED <<now, level, start, enemy, projectile, game>>

Heal ==
    /\ player' = heal(player, 1)
    /\ lastOp' = Op("heal", 1)
    /\ UNCHANGED <<now, level, start, enemy, hist, projectile, game>>

ResetPosition ==
    /\ player' = reset_position(player, start[1], start[2])
    /\ hist' = HistAfterReset(hist)
    /\ lastOp' = Op("reset_position", 0)
    /\ UNCHANGED <<now, level, start, enemy, projectile, game>>

\* the shoot key event of Game.handle_events
Shoot ==
    /\ \E r \in {shoot(player, now)} :
          /\ player' = r.player
          /\ hist' = [hist EXCEPT !.shot = r.result,
                                   !.lastShot = IF r.result # << >> THEN now ELSE @]
    /\ lastOp' = Op("shoot", 0)
    /\ UNCHANGED <<now, level, start, enemy, projectile, game>>

EnemyUpdate(next_interval) ==
    /\ enemy.kind \in {"basic", "jumping"}
    /\ hist.frames < MaxEnemyFrames
    /\ \E e \in {enemy} :
          enemy' = Enemy_update(e, next_interval, level.solid_tiles,
                                level.one_way_tiles, level.height, level.width)
    /\ hist' = [hist EXCEPT !.frames = @ + 1]
    /\ lastOp' = Op("enemy_update", next_interval)
    /\ UNCHANGED <<now, level, start, player, projectile, game>>

\* the update of a JumpingEnemy, followed from jump to jump
JumperUpdate(next_interval) ==
    /\ enemy.kind = "jumping"
    /\ hist.jumps < MaxJumps
    /\ \E e \in {enemy} :
          enemy' = Enemy_update(e, next_interval, level.solid_tiles,
                                level.one_way_tiles, level.height, level.width)
    /\ hist' = [hist EXCEPT
                  !.sinceJump = IF enemy'.jump_timer = 0 THEN 0 ELSE @ + 1,
                  !.jumps = IF enemy'.jump_timer = 0 THEN @ + 1 ELSE @]
    /\ lastOp' = Op("jumper_update", next_interval)
    /\ UNCHANGED <<now, level, start, player, projectile, game>>

EnemyTakeDamage(d) ==
    /\ enemy' = Enemy_take_damage(enemy, d)
    /\ lastOp' = Op("enemy_take_damage", d)
    /\ UNCHANGED <<now, level, start, player, hist, projectile, game>>

ProjectileUpdate ==
    /\ projectile # NoProjectile
    /\ hist.flown < MaxProjectileFrames
    /\ projectile' = Projectile_update(projectile, level.width, level.height)
    /\ hist' = [hist EXCEPT !.flown = @ + 1]
    /\ lastOp' = Op("projectile_update", 0)
    /\ UNCHANGED <<now, level, start, player, enemy, game>>

ProjectileHit ==
    /\ projectile # NoProjectile
    /\ projectile' = Projectile_hit(projectile)
    /\ lastOp' = Op("projectile_hit", 0)
    /\ UNCHANGED <<now, level, start, player, enemy, hist, game>>

\* the updates begun in Idle since the enemy last began one outside Idle,
\* counted up to max_attack_cooldown, and the attacks it has started, counted
\* up to 2
HistAfterAmbush(e, q) ==
    [hist EXCEPT !.idleUpdates = IF Ambush_idle(e)
                                 THEN Min2(@ + 1, max_attack_cooldown)
                                 ELSE 0,
                 !.attacks = IF ~e.is_attacking /\ q.is_attacking
                             THEN Min2(@ + 1, 2)
                             ELSE @]

AmbushUpdate(player_pos) ==
    /\ enemy.kind = "ambush"
    /\ \E q \in {AmbushEnemy_update(enemy, level.solid_tiles, level.one_way_tiles,
                                     level.height, level.width, player_pos)} :
          /\ enemy' = q
          /\ hist' = HistAfterAmbush(enemy, q)
    /\ lastOp' = Op("ambush_update", player_pos)
    /\ UNCHANGED <<now, level, start, player, projectile, game>>

\* the attack that ended last, and the updates of normal movement since,
\* counted up to 2 * min_attack_cooldown
HistAfterBoss(e, q) ==
    [hist EXCEPT !.calmUpdates =
                     IF e.current_attack = "none" /\ q.current_attack = "none" /\ e.active
                     THEN Min2(@ + 1, 2 * min_attack_cooldown)
                     ELSE IF q.current_attack = "none" THEN 0 ELSE @,
                 !.lastAttack =
                     IF e.current_attack # "none" /\ q.current_attack = "none"
                     THEN e.current_attack
                     ELSE @]

BossUpdate(choice) ==
    /\ enemy.kind = "boss"
    /\ \/ enemy.attack_counter < MaxBossAttacks
       \/ enemy.current_attack # "none"
       \/ enemy.attack_cooldown > 1
    /\ \E q \in {BossEnemy_update(enemy, choice, level.solid_tiles, level.one_way_tiles,
                                   level.height, level.width, <<player.x, player.y>>)} :
          /\ enemy' = q
          /\ hist' = HistAfterBoss(enemy, q)
    /\ lastOp' = Op("boss_update", choice)
    /\ UNCHANGED <<now, level, start, player, projectile, game>>

\* the fields of Game among those of a world
GameOf(w) ==
    [state |-> w.state, game_over |-> w.game_over,
     camera_x |-> w.camera_x, camera_y |-> w.camera_y,
     enemies |-> w.enemies, bullets |-> w.bullets]

\* what random.choice picks from in BossEnemy.choose_attack
BossChoices == {"jump_shoot", "jump_slam"}

\* the update of e in this frame reads random.choice
Choosing(e) ==
    /\ e.kind = "boss"
    /\ e.active
    /\ e.current_attack = "none"
    /\ e.attack_cooldown <= 1
    /\ (e.attack_counter + 1) % 4 # 0

\* what random.choice may return to each enemy of the frame; an enemy that
\* does not read it is given "jump_shoot"
ChoicesOf(enemies) ==
    {c \in [1..Len(enemies) -> BossChoices] :
        \A i \in 1..Len(enemies) : ~Choosing(enemies[i]) => c[i] = "jump_shoot"}

\* one pass of the main loop through Game.update, GameFrameTime after the last
GameUpdate(k, choices) ==
    /\ game.state = "playing"
    /\ IF hist.standby
       THEN k = NoKeys /\ hist.frames < MaxStandbyFrames
       ELSE hist.frames < MaxGameFrames
    /\ now' = now + GameFrameTime
    /\ \E w \in {Game_update(World(level, player, game), k, now', choices,
                             CHOOSE n \in JumpIntervals : TRUE)} :
          /\ level' = w.level
          /\ player' = w.player
          /\ game' = GameOf(w)
    /\ hist' = [hist EXCEPT !.frames = @ + 1]
    /\ lastOp' = Op("game_update", [keys |-> k, choices |-> choices])
    /\ UNCHANGED <<start, enemy, projectile>>

\* one pass of the main loop through Game.update, next to the exit door
DoorUpdate(k) ==
    /\ game.state = "playing"
    /\ hist.frames < MaxDoorFrames
    /\ now' = now + GameFrameTime
    /\ \E w \in {Game_update(World(level, player, game), k, now',
                             [i \in 1..Len(game.enemies) |-> "jump_shoot"],
                             CHOOSE n \in JumpIntervals : TRUE)} :
          /\ level' = w.level
          /\ player' = w.player
          /\ game' = GameOf(w)
    /\ hist' = [hist EXCEPT !.frames = @ + 1]
    /\ lastOp' = Op("game_update", [keys |-> k, choices |-> << >>])
    /\ UNCHANGED <<start, enemy, projectile>>

\* the K_f key event, handled before the update of the same pass
GameShoot ==
    /\ game.state = "playing"
    /\ ~hist.standby
    /\ lastOp.op # "game_shoot"
    /\ \E w \in {Game_shoot(World(level, player, game), now)} :
          /\ level' = w.level
          /\ player' = w.player
          /\ game' = GameOf(w)
    /\ lastOp' = Op("game_shoot", 0)
    /\ UNCHANGED <<now, start, enemy, projectile, hist>>

(***************************************************************************)
(* Specifications                                                          *)
(***************************************************************************)
\* Game.load_level at clock reading t0
Loaded(lv, at, t0) ==
    /\ level = lv
    /\ start = at
    /\ player = Player_init(at[1], at[2])
    /\ now = t0
    /\ enemy = NoEnemy
    /\ hist = HistInit
    /\ lastOp = Op("init", 0)
    /\ projectile = NoProjectile
    /\ game = NoGame

\* Movement: every key combination, regular frames, several levels.
PhysLevels ==
    ({LevelWall} \X StartsWall) \cup ({LevelCorridor} \X StartsCorridor)
        \cup ({LevelDrop} \X StartsDrop)

Init == \E ls \in PhysLevels : Loaded(ls[1], ls[2], PhysStart)

Next == \E k \in Keys : Update(k, 100, PhysStart + PhysSpan)

Spec == Init /\ [][Next]_vars

\* Jumping: the jump key alone, long enough to land and jump again.
JumpKeys == {k \in Keys : ~k.left /\ ~k.right}

InitJump == Loaded(LevelCorridor, <<40, 80>>, JumpStart)

NextJump ==
    \/ \E k \in JumpKeys : Update(k, 100, JumpStart + JumpSpan)
    \/ ResetPosition

SpecJump == InitJump /\ [][NextJump]_vars

\* Dashing: one direction key at a time, regular frames and lag spikes.
DashKeys == {k \in Keys : ~(k.left /\ k.right) /\ ~k.jump}

DashLevels == {<<LevelWall, <<90, 80>>>>, <<LevelDrop, <<80, 70>>>>}

InitDash == \E ls \in DashLevels : Loaded(ls[1], ls[2], DashStart)

NextDash ==
    \E k \in DashKeys, dt \in FrameTimes : Update(k, dt, DashStart + DashSpan)

SpecDash == InitDash /\ [][NextDash]_vars

\* a player constructed at an early or a late clock reading, and every
\* combination of the two direction keys
TapStarts == {0, 200, 1000}
TapKeys == {k \in Keys : ~k.jump}

InitTap == \E t0 \in TapStarts : Loaded(LevelWall, <<90, 80>>, t0)

NextTap == \E k \in TapKeys, dt \in FrameTimes : Update(k, dt, TapSpan)

SpecTap == InitTap /\ [][NextTap]_vars

\* Dash immunity: direction keys, hits and respawn through one dash.
InitImmune == Loaded(LevelWall, <<90, 80>>, DashStart)

NextImmune ==
    \/ \E k \in DashKeys, dt \in FrameTimes : Update(k, dt, DashStart + ImmuneSpan)
    \/ TakeDamage(1)
    \/ ResetPosition

SpecImmune == InitImmune /\ [][NextImmune]_vars

\* Shooting: walking left and right between shots, from early clock readings.
ShootKeys == {k \in Keys : ~k.jump /\ ~k.right}

InitShoot == Loaded(LevelWall, <<90, 80>>, ShootStart)

NextShoot ==
    \/ \E k \in ShootKeys, dt \in FrameTimes : Update(k, dt, ShootStart + ShootSpan)
    \/ Shoot

SpecShoot == InitShoot /\ [][NextShoot]_vars

\* Health: hits, healing and respawn, with dashes for the immunity.
HealthKeys == {k \in Keys : ~k.left /\ ~k.jump}

InitHealth == Loaded(LevelWall, <<90, 80>>, HealthStart)

NextHealth ==
    \/ \E k \in HealthKeys, dt \in FrameTimes : Update(k, dt, HealthStart + HealthSpan)
    \/ \E d \in {1, MaxDamage} : TakeDamage(d)
    \/ Heal
    \/ ResetPosition

SpecHealth == InitHealth /\ [][NextHealth]_vars

\* one enemy in a loaded level
InitEnemy ==
    /\ \E g \in EnemyGrids :
         /\ level = load_from_csv(g)
         /\ \E spawn \in enemy_spawns(g), interval \in JumpIntervals :
                enemy = Enemy_init(spawn, interval)
    /\ now = 0
    /\ start = <<0, 0>>
    /\ player = Player_init(0, 0)
    /\ hist = HistInit
    /\ lastOp = Op("init", 0)
    /\ projectile = NoProjectile
    /\ game = NoGame

NextEnemy ==
    \E next_interval \in JumpIntervals : EnemyUpdate(next_interval)

SpecEnemy == InitEnemy /\ [][NextEnemy]_vars

\* a JumpingEnemy in a loaded level, updated by the frame loop of Game.run
InitJumper ==
    /\ \E g \in EnemyGrids :
         /\ level = load_from_csv(g)
         /\ \E spawn \in {sp \in enemy_spawns(g) : sp.type = "jumping"},
                interval \in JumpIntervals :
                enemy = Enemy_init(spawn, interval)
    /\ now = 0
    /\ start = <<0, 0>>
    /\ player = Player_init(0, 0)
    /\ hist = HistInit
    /\ lastOp = Op("init", 0)
    /\ projectile = NoProjectile
    /\ game = NoGame

NextJumper ==
    \E next_interval \in JumpIntervals : JumperUpdate(next_interval)

SpecJumper == InitJumper /\ [][NextJumper]_vars /\ WF_<<enemy, hist>>(NextJumper)

\* a BasicEnemy patrolling between walls or level edges
InitPatrol ==
    /\ \E g \in PatrolGrids :
         /\ level = load_from_csv(g)
         /\ \E spawn \in enemy_spawns(g) : enemy = Enemy_init(spawn, 0)
    /\ now = 0
    /\ start = <<0, 0>>
    /\ player = Player_init(0, 0)
    /\ hist = HistInit
    /\ lastOp = Op("init", 0)
    /\ projectile = NoProjectile
    /\ game = NoGame

NextPatrol == EnemyUpdate(0)

SpecPatrol == InitPatrol /\ [][NextPatrol]_vars

\* Player positions handed to an AmbushEnemy hanging at <<80, 64>> of
\* GridAmbush: straight below it, behind the solid block, behind the
\* one-way platform, beside it outside the cone, level with its centre,
\* above it, at the far end of its range and beyond its range.
SpotBelow == <<80, 208>>
SpotBehindSolid == <<16, 208>>
SpotBehindOneWay == <<176, 208>>
SpotBeside == <<200, 100>>
SpotLevel == <<150, 80>>
SpotAbove == <<150, 20>>
SpotDeep == <<80, 560>>
SpotBeyond == <<80, 592>>
\* below and a little to the right: the dash loses its horizontal part to
\* the whole-pixel rect and passes the target at 40 px
SpotAskew == <<120, 356>>
AmbushSpots ==
    {SpotBelow, SpotBehindSolid, SpotBehindOneWay, SpotBeside, SpotLevel,
     SpotAbove, SpotDeep, SpotBeyond, SpotAskew}

InitAmbush ==
    /\ level = load_from_csv(GridAmbush)
    /\ \E spawn \in enemy_spawns(GridAmbush) :
          enemy = AmbushEnemy_init(spawn, level.solid_tiles, level.one_way_tiles)
    /\ now = 0
    /\ start = <<0, 0>>
    /\ player = Player_init(0, 0)
    /\ hist = HistInit
    /\ lastOp = Op("init", 0)
    /\ projectile = NoProjectile
    /\ game = NoGame

NextAmbush == \E player_pos \in AmbushSpots : AmbushUpdate(player_pos)

SpecAmbush == InitAmbush /\ [][NextAmbush]_vars

\* The frame loop of Game.run calls the update again and again; the player
\* is out of sight above the enemy, straight below it, below it beside its
\* path, or at the far end of its range.
FairSpots == {SpotAbove, SpotBelow, SpotAskew, SpotDeep}

NextAmbushFair == \E player_pos \in FairSpots : AmbushUpdate(player_pos)

SpecAmbushFair ==
    InitAmbush /\ [][NextAmbushFair]_vars /\ WF_<<enemy, hist>>(NextAmbushFair)

\* The boss and a player standing on the floor of GridBoss, under the block
\* or in the open; the attacks random.choice can pick.
BossSpots == {<<96, 208>>, <<250, 208>>}

InitBoss ==
    /\ level = load_from_csv(GridBoss)
    /\ \E spawn \in enemy_spawns(GridBoss) : enemy = BossEnemy_init(spawn)
    /\ now = 0
    /\ start \in BossSpots
    /\ player = Player_init(start[1], start[2])
    /\ hist = HistInit
    /\ lastOp = Op("init", 0)
    /\ projectile = NoProjectile
    /\ game = NoGame

NextBoss == \E choice \in BossChoices : BossUpdate(choice)

SpecBoss == InitBoss /\ [][NextBoss]_vars

\* The boss room with a one-way platform over the block, and the player
\* under the block: the jump-shoot ends with the boss on the block, under
\* the platform.
GridBossLedge == [GridBoss EXCEPT ![1][2] = "P"]

InitSlam ==
    /\ \E g \in {GridBoss, GridBossLedge} :
          /\ level = load_from_csv(g)
          /\ \E spawn \in enemy_spawns(g) : enemy = BossEnemy_init(spawn)
    /\ now = 0
    /\ start = <<96, 208>>
    /\ player = Player_init(start[1], start[2])
    /\ hist = HistInit
    /\ lastOp = Op("init", 0)
    /\ projectile = NoProjectile
    /\ game = NoGame

SpecSlam == InitSlam /\ [][NextBoss]_vars

\* the same, with the frame loop of Game.run calling the update again and
\* again
SpecBossFair == SpecBoss /\ WF_<<enemy, hist>>(NextBoss)

\* Every enemy variant, updated frame by frame and hit by bullets at any
\* point: the patrolling and jumping enemies of EnemyGrids, the ambusher
\* with a player below it, the boss with a player under the block.
InitVariants ==
    \/ InitEnemy
    \/ InitAmbush
    \/ InitBoss /\ start = <<96, 208>>

NextVariants ==
    \/ \E next_interval \in JumpIntervals : EnemyUpdate(next_interval)
    \/ AmbushUpdate(SpotBelow)
    \/ BossUpdate("jump_slam")
    \/ \E d \in {1, MaxDamage} : EnemyTakeDamage(d)

SpecVariants == InitVariants /\ [][NextVariants]_vars

\* One projectile in the 3 x 3 wall level: a Bullet made from the shoot
\* descriptor of a player standing at <<90, 80>>, facing either way, or a
\* BossBullet with one of the velocities the boss fires (spread, slam,
\* ring), updated each frame and hit at any point.
BossBulletVelocities ==
    {<<42, 42>>, <<0, 60>>, <<-42, 42>>, <<-80, 0>>, <<80, 0>>}
    \cup {<<Circle5[k], Circle5[((k + 8) % 12) + 1]>> : k \in 1..12}

Projectiles ==
    {[class |-> "Bullet",
      body |-> Bullet_init(90 + Player_width \div 2, 80 + Player_height \div 2, d)]
       : d \in {-1, 1}}
    \cup {[class |-> "BossBullet", body |-> BossBullet_init(96, 90, v[1], v[2])]
            : v \in BossBulletVelocities}

InitProjectile ==
    /\ level = LevelWall
    /\ now = 0
    /\ start = <<90, 80>>
    /\ player = Player_init(start[1], start[2])
    /\ enemy = NoEnemy
    /\ projectile \in Projectiles
    /\ game = NoGame
    /\ hist = [HistInit EXCEPT !.origin = <<projectile.body.x, projectile.body.y>>]
    /\ lastOp = Op("init", 0)

NextProjectile ==
    \/ ProjectileUpdate
    \/ ProjectileHit

SpecProjectile == InitProjectile /\ [][NextProjectile]_vars

\* A game in progress in a hall wider than the screen: a crystal and the
\* exit door to the right of the player, then two bosses, each one hit from
\* defeat, the first over the one removable plank of the floor.
GridGame ==
    << << ".", ".", ".", ".", ".", ".", ".", ".", ".", ".", ".", ".", ".", ".", ".", ".", "." >>,
       << ".", ".", ".", ".", ".", ".", ".", ".", ".", ".", ".", ".", ".", ".", ".", ".", "." >>,
       << ".", ".", ".", ".", ".", ".", ".", ".", "C", "E", "Z", "Z", ".", ".", ".", ".", "." >>,
       << "G", "G", "G", "G", "G", "G", "G", "G", "G", "G", "R", "G", "G", "G", "G", "G", "G" >> >>

\* the same hall without a crystal, with a second crystal out of reach, and
\* without a door
GridGameBare == [GridGame EXCEPT ![3][9] = "."]
GridGameFar == [GridGame EXCEPT ![3][1] = "C"]
GridGameShut == [GridGame EXCEPT ![3][10] = "."]
\* the hall with a block to stand on in place of the crystal
GridGameStep == [GridGame EXCEPT ![3][9] = "G"]
\* the hall with a ledge of two blocks and a BasicEnemy walking along it
GridGameWalk == [GridGame EXCEPT ![3][7] = "G", ![3][8] = "G", ![2][7] = "B"]

\* the hall, the place the player stands at when the fight is joined (on
\* the crystal beside the door, on the plank under the first boss, or on the
\* block), and whether the player only stands by from then on
GameStarts ==
    {<<GridGame, 540, 144, FALSE>>, <<GridGame, 660, 144, FALSE>>,
     <<GridGameBare, 540, 144, FALSE>>, <<GridGameFar, 540, 144, FALSE>>,
     <<GridGameShut, 540, 144, FALSE>>, <<GridGameStep, 540, 80, TRUE>>,
     <<GridGameWalk, 479, 80, TRUE>>}

GameKeys == {NoKeys, [NoKeys EXCEPT !.right = TRUE]}

\* spawn markers in row-major order, as load_from_csv appends them
SpawnList(grid) ==
    LET sel == SelectSeq(Cells(grid), LAMBDA cell : cell.code \in {"B", "J", "A", "Z"})
    IN  [i \in 1..Len(sel) |->
           [x |-> sel[i].c * tile_size + tile_size \div 2,
            y |-> sel[i].r * tile_size + tile_size \div 2,
            type |-> CASE sel[i].code = "J" -> "jumping"
                       [] sel[i].code = "A" -> "ambush"
                       [] sel[i].code = "Z" -> "boss"
                       [] OTHER -> "basic"]]

\* Game.load_level
load_level(grid, start_x, start_y) ==
    LET lv == load_from_csv(grid)
    IN  [level |-> lv,
         player |-> Player_init(start_x, start_y),
         state |-> "playing", game_over |-> FALSE,
         camera_x |-> 0, camera_y |-> 0,
         enemies |-> spawn_enemies(SpawnList(grid), lv.solid_tiles, lv.one_way_tiles,
                                   CHOOSE n \in JumpIntervals : TRUE),
         bullets |-> << >>]

InitGame ==
    /\ now = GameStart
    /\ \E s \in GameStarts :
         \E w \in {load_level(s[1], s[2], s[3])} :
            /\ start = <<s[2], s[3]>>
            /\ level = w.level
            /\ player = w.player
            /\ game = [GameOf(w) EXCEPT
                         !.enemies = [i \in 1..Len(@) |-> [@[i] EXCEPT !.health = 1]]]
            /\ hist = [HistInit EXCEPT !.standby = s[4]]
    /\ enemy = NoEnemy
    /\ projectile = NoProjectile
    /\ lastOp = Op("init", 0)

NextGame ==
    \/ \E k \in GameKeys, choices \in ChoicesOf(game.enemies) : GameUpdate(k, choices)
    \/ GameShoot

SpecGame == InitGame /\ [][NextGame]_vars

\* The exit door with a BasicEnemy dropping in front of it, and a player on
\* the last heart standing to the right of the door.
GridDoor ==
    << << ".", "B", ".", "." >>,
       << ".", "E", ".", "." >>,
       << "G", "G", "G", "G" >> >>

DoorStarts == {<<128, 80>>, <<130, 80>>, <<150, 80>>}
DoorKeys == {k \in Keys : ~k.jump /\ ~(k.left /\ k.right)}

InitDoor ==
    /\ now = GameStart
    /\ \E s \in DoorStarts :
         \E w \in {load_level(GridDoor, s[1], s[2])} :
            /\ start = s
            /\ level = w.level
            /\ player = [w.player EXCEPT !.hearts = 1]
            /\ game = GameOf(w)
    /\ hist = HistInit
    /\ enemy = NoEnemy
    /\ projectile = NoProjectile
    /\ lastOp = Op("init", 0)

NextDoor == \E k \in DoorKeys : DoorUpdate(k)

SpecDoor == InitDoor /\ [][NextDoor]_vars

\* A shaft deep enough for a falling body to reach its terminal speed: a
\* patrolling and a jumping enemy spawned at the top, the player dropped in
\* at the top of the far column and only falling, or standing on the floor
\* with the jump and right keys.
GridShaft ==
    << << "B", "J", ".", ".", "." >>,
       << ".", ".", ".", ".", "." >>,
       << ".", ".", ".", ".", "." >>,
       << ".", ".", ".", ".", "." >>,
       << "G", "G", "G", "G", "G" >> >>

FallStarts == {<<GridShaft, 288, 0, TRUE>>, <<GridShaft, 288, 208, FALSE>>}

FallKeys == {k \in Keys : ~k.left}

InitFall ==
    /\ now = GameStart
    /\ \E s \in FallStarts :
         \E w \in {load_level(s[1], s[2], s[3])} :
            /\ start = <<s[2], s[3]>>
            /\ level = w.level
            /\ player = w.player
            /\ game = GameOf(w)
            /\ hist = [HistInit EXCEPT !.standby = s[4]]
    /\ enemy = NoEnemy
    /\ projectile = NoProjectile
    /\ lastOp = Op("init", 0)

NextFall ==
    \E k \in FallKeys, choices \in ChoicesOf(game.enemies) : GameUpdate(k, choices)

SpecFall == InitFall /\ [][NextFall]_vars

(***************************************************************************)
(* Properties                                                              *)
(***************************************************************************)
IsUpdate == lastOp'.op = "update"

\* the keys of the update step being taken
StepKeys == hist'.prevKeys

NoSolidOverlap(p) == ~AnyCollides(Player_rect(p), level.solid_tiles)

XOverlap(a, b) == a.x < b.x + b.w /\ b.x < a.x + a.w
YOverlap(a, b) == a.y < b.y + b.h /\ b.y < a.y + a.h

\* C1: an update that starts with the player's rect clear of every solid
\* tile ends with the rect clear of every solid tile.
C1_NoSolidOverlapAfterUpdate ==
    [][(IsUpdate /\ NoSolidOverlap(player)) => NoSolidOverlap(player')]_vars

\* the player walked right into a wall and was put back flush against it
C1_Witness ==
    /\ lastOp.op = "update"
    /\ hist.prevKeys.right
    /\ player.velocity_x > 0
    /\ NoSolidOverlap(player)
    /\ \E i \in 1..Len(level.solid_tiles) :
          /\ player.x + Player_width = level.solid_tiles[i].x
          /\ YOverlap(Player_rect(player), level.solid_tiles[i])

\* the update of the step being taken, run in the same level without its
\* one-way tiles
WithoutOneWay ==
    Player_update(player, StepKeys, now', level.solid_tiles, << >>,
                  level.width, level.height)

\* vertical velocity with which the step being taken moves the body
StepFallSpeed == ApplyGravity(player).velocity_y

\* the tile carries the player after the step, and the player's bottom was
\* at or above its top before the step
CarriedFromAbove(tile) ==
    /\ player.y + Player_height <= tile.y
    /\ player'.y + Player_height = tile.y
    /\ XOverlap(Player_rect(player'), tile)

\* C2: one-way tiles never change the horizontal outcome of an update; they
\* change its outcome at all only for a body that is not rising and whose
\* bottom was at or above the tile's top before the move, and they
\* reposition only a body that is falling, onto the top of such a tile.
C2_OneWayOnlyFromAbove ==
    [][IsUpdate =>
         \E q0 \in {WithoutOneWay} :
            /\ player'.x = q0.x
            /\ player' # q0 =>
                  /\ StepFallSpeed >= 0
                  /\ \E i \in 1..Len(level.one_way_tiles) :
                        CarriedFromAbove(level.one_way_tiles[i])
            /\ player'.y # q0.y => StepFallSpeed > 0]_vars

\* the player fell onto a one-way tile and stands on it
C2_Witness ==
    /\ lastOp.op = "update"
    /\ player.on_ground /\ ~player.was_on_ground
    /\ player.velocity_y = 0
    /\ ~AnyCollides(Rect(player.x, player.y + 1, Player_width, Player_height),
                    level.solid_tiles)
    /\ player.y + Player_height < level.height
    /\ \E i \in 1..Len(level.one_way_tiles) :
          /\ player.y + Player_height = level.one_way_tiles[i].y
          /\ XOverlap(Player_rect(player), level.one_way_tiles[i])

\* the enemy update of the step being taken, run in the same level without
\* its one-way tiles
EnemyWithoutOneWay ==
    Enemy_update(enemy, lastOp'.d, level.solid_tiles, << >>,
                 level.height, level.width)

\* C3: one-way tiles change the outcome of an Enemy.update only for an enemy
\* that is falling and whose bottom was at or above the tile's top before
\* the move, and then the enemy ends on top of that tile.
C3_EnemyOneWayOnlyFromAbove ==
    [][lastOp'.op = "enemy_update" =>
         \E q0 \in {EnemyWithoutOneWay} :
            enemy' # q0 =>
               /\ Enemy_ApplyGravity(get_movement_behavior(enemy, lastOp'.d)).velocity_y > 0
               /\ \E i \in 1..Len(level.one_way_tiles) :
                     /\ enemy.y + Enemy_height <= level.one_way_tiles[i].y
                     /\ enemy'.y + Enemy_height = level.one_way_tiles[i].y]_vars

IsTakeDamage == lastOp'.op = "take_damage"

\* C4 as stated: take_damage changes neither hearts nor the invulnerability
\* timer while invulnerable or dashing; otherwise it sets hearts to
\* max(0, hearts - d) and invulnerable; and from a call that hurt until an
\* update observes more than invulnerable_duration ms elapsed, every call
\* leaves hearts unchanged.
C4_TakeDamageAsStated ==
    [][IsTakeDamage =>
         /\ (player.invulnerable \/ player.is_dashing) =>
                /\ player'.hearts = player.hearts
                /\ player'.invulnerable = player.invulnerable
                /\ player'.invulnerable_time = player.invulnerable_time
         /\ ~(player.invulnerable \/ player.is_dashing) =>
                /\ player'.hearts = Max2(0, player.hearts - lastOp'.d)
                /\ player'.invulnerable
         /\ hist.hurtWindow => player'.hearts = player.hearts]_vars

\* C4, amended: the call changes nothing while invulnerable or dashing or
\* with hearts already 0; otherwise it sets hearts to max(0, hearts - d),
\* invulnerable and the timer; and from a call that hurt until an update
\* observes more than invulnerable_duration ms elapsed or reset_position is
\* called, every call leaves hearts unchanged.
C4_TakeDamage ==
    [][IsTakeDamage =>
         /\ (player.invulnerable \/ player.is_dashing \/ player.hearts = 0) =>
                player' = player
         /\ ~(player.invulnerable \/ player.is_dashing \/ player.hearts = 0) =>
                /\ player'.hearts = Max2(0, player.hearts - lastOp'.d)
                /\ player'.invulnerable
                /\ player'.invulnerable_time = now
         /\ hist.hurtLive => player'.hearts = player.hearts]_vars

\* a take_damage call inside the window opened by an earlier hit, at a later
\* clock reading, left the hearts as they were
C4_Witness ==
    /\ lastOp.op = "take_damage"
    /\ hist.hurtLive
    /\ hist.lastHurt < now
    /\ player.invulnerable
    /\ player.hearts = max_hearts - 1

\* C5: a player without hearts stays not alive under update, take_damage
\* and heal.
C5_DeadStaysDead ==
    [][(~is_alive(player) /\ lastOp'.op \in {"update", "take_damage", "heal"})
          => ~is_alive(player')]_vars

\* velocity_x as the keys alone set it, lines 136-142
InputVelocity(k) == IF k.right THEN speed ELSE IF k.left THEN -speed ELSE 0

\* C7 as stated: from the update that starts a dash until an update observes
\* more than dash_duration ms elapsed, every update sets velocity_x to
\* dash_direction * dash_speed and every take_damage call leaves hearts
\* unchanged; the first update after that has is_dashing false and takes
\* velocity_x from the keys.
C7_DashWindowAsStated ==
    [][/\ (IsUpdate /\ (DashStarted(player', now')
                          \/ (hist.dashWindow /\ now' - hist.lastDash <= dash_duration))) =>
            /\ player'.is_dashing
            /\ player'.dash_direction \in {-1, 1}
            /\ player'.velocity_x = player'.dash_direction * dash_speed
       /\ (IsUpdate /\ hist.dashWindow /\ now' - hist.lastDash > dash_duration) =>
            /\ ~player'.is_dashing
            /\ player'.velocity_x = InputVelocity(StepKeys)
       /\ (IsTakeDamage /\ hist.dashWindow) =>
            player'.hearts = player.hearts]_vars

\* C7, amended: the same, for a dash that reset_position has not cancelled
C7_DashWindow ==
    [][/\ (IsUpdate /\ (DashStarted(player', now')
                          \/ (hist.dashLive /\ now' - hist.lastDash <= dash_duration))) =>
            /\ player'.is_dashing
            /\ player'.dash_direction \in {-1, 1}
            /\ player'.velocity_x = player'.dash_direction * dash_speed
       /\ (IsUpdate /\ hist.dashLive /\ now' - hist.lastDash > dash_duration) =>
            /\ ~player'.is_dashing
            /\ player'.velocity_x = InputVelocity(StepKeys)
       /\ (IsTakeDamage /\ hist.dashLive) =>
            player'.hearts = player.hearts]_vars

\* a take_damage call reached a dashing player that no earlier hit protects
\* and left the hearts full
C7_Witness ==
    /\ lastOp.op = "take_damage"
    /\ hist.dashLive
    /\ player.is_dashing
    /\ ~player.invulnerable
    /\ hist.lastHurt = -1
    /\ player.hearts = max_hearts

\* the key (direction -1 left, 1 right) goes from released at the previous
\* update to pressed at this one, less than double_tap_window ms after its
\* previous such edge
DoubleTapped(direction) ==
    LET pressed == IF direction < 0 THEN StepKeys.left ELSE StepKeys.right
        before == IF direction < 0 THEN hist.prevKeys.left ELSE hist.prevKeys.right
        edge == IF direction < 0 THEN hist.leftEdge ELSE hist.rightEdge
    IN  /\ pressed /\ ~before
        /\ edge >= 0
        /\ now' - edge < double_tap_window

\* C6: an update starts a dash only if a left/right key has a rising edge
\* less than double_tap_window ms after its previous rising edge, no dash is
\* running, more than dash_cooldown ms have passed since the last dash
\* start, and the player was grounded at most dash_grace_period ms ago.
C6_DashStartConditions ==
    [][(IsUpdate /\ DashStarted(player', now')) =>
         /\ DoubleTapped(-1) \/ DoubleTapped(1)
         /\ ~(player.is_dashing /\ now' - hist.lastDash <= dash_duration)
         /\ hist.lastDash < 0 \/ now' - hist.lastDash > dash_cooldown
         /\ hist.lastGrounded >= 0
         /\ now' - hist.lastGrounded <= dash_grace_period]_vars

\* C8: an update in which the player is dashing leaves velocity_y as it was
\* at the gravity step, on the ground or in the air.
C8_NoGravityWhileDashing ==
    [][(IsUpdate /\ player'.is_dashing) =>
          ApplyGravity(player).velocity_y = player.velocity_y]_vars

\* C9: at most one air jump since the last ground jump; an air jump needs a
\* rising edge of the jump key, a player off the ground, an unused charge
\* and a ground jump at most double_jump_grace_period ms back with no
\* reset_position since.
C9_OneAirJump ==
    [][IsUpdate =>
         /\ hist'.airJumps <= 1
         /\ hist'.airJumps = hist.airJumps + 1 =>
               /\ StepKeys.jump /\ ~hist.prevKeys.jump
               /\ ~player'.on_ground
               /\ hist.airJumps = 0
               /\ hist.groundJump >= 0
               /\ now' - hist.groundJump <= double_jump_grace_period]_vars

\* the player has just made its air jump
C9_Witness ==
    /\ lastOp.op = "update"
    /\ hist.airJumps = 1
    /\ hist.groundJump >= 0 /\ hist.groundJump < now
    /\ player.velocity_y = jump_speed
    /\ ~player.on_ground
    /\ ~player.has_double_jump

\* C10: an update makes a ground jump exactly when the jump key is pressed
\* now, was not pressed at the previous update, and the player is on the
\* ground after this update's collision resolution.
C10_GroundJumpOnEdge ==
    [][IsUpdate =>
         (GroundJumped(player', now')
            <=> (StepKeys.jump /\ ~hist.prevKeys.jump /\ player'.on_ground))]_vars

\* the jump key went down in the very update that landed the player, and
\* the player jumped in it
C10_Witness ==
    /\ lastOp.op = "update"
    /\ GroundJumped(player, now)
    /\ player.on_ground /\ ~player.was_on_ground
    /\ hist.prevKeys.jump

IsShoot == lastOp'.op = "shoot"

\* C11: shoot returns a descriptor (rect centre, facing direction) only
\* when more than shoot_cooldown ms have passed since the last successful
\* shot; a call inside the cooldown returns None and leaves the player
\* unchanged.
C11_ShootCooldown ==
    [][IsShoot =>
         /\ hist'.shot # << >> =>
               /\ hist.lastShot < 0 \/ now - hist.lastShot > shoot_cooldown
               /\ hist'.shot = << [x |-> player.x + 16, y |-> player.y + 24,
                                    direction |-> player.facing_direction] >>
         /\ (hist.lastShot >= 0 /\ now - hist.lastShot <= shoot_cooldown) =>
               /\ hist'.shot = << >>
               /\ player' = player]_vars

\* a shoot call at a later frame, still inside the cooldown of a successful
\* shot, returned None
C11_Witness ==
    /\ lastOp.op = "shoot"
    /\ hist.shot = << >>
    /\ hist.lastShot >= 0
    /\ now > hist.lastShot
    /\ now - hist.lastShot <= shoot_cooldown


HealthInOrder(e) ==
    /\ 0 <= e.health /\ e.health <= e.max_health
    /\ ~e.active <=> e.health = 0
    /\ Enemy_is_alive(e) <=> e.active

IsAnyEnemyUpdate == lastOp'.op \in {"enemy_update", "ambush_update", "boss_update"}

\* C12: for every enemy variant and every sequence of take_damage and
\* update calls, 0 <= health <= max_health, active is false exactly when
\* health is 0, is_alive() equals active, and an update of an enemy that is
\* not active changes nothing of it.
C12_EnemyHealth ==
    /\ []HealthInOrder(enemy)
    /\ [][(IsAnyEnemyUpdate /\ ~enemy.active) => enemy' = enemy]_vars

\* an ambusher killed in the middle of its dash has been updated again
C12_Witness ==
    /\ lastOp.op = "ambush_update"
    /\ ~enemy.active
    /\ enemy.health = 0
    /\ enemy.is_attacking
    /\ enemy.velocity_y > 0
IsEnemyUpdate == lastOp'.op = "enemy_update"

\* the rect of the enemy after the horizontal move of the step being taken
MovedRect ==
    Rect(TruncTenths(10 * enemy.x + enemy.direction * enemy.speed), enemy.y,
         Enemy_width, Enemy_height)

ReachesLeftEdge == MovedRect.x <= 0
ReachesRightEdge == MovedRect.x + Enemy_width >= level.width
BlockingTiles ==
    {i \in 1..Len(level.solid_tiles) : colliderect(MovedRect, level.solid_tiles[i])}

\* C13: an update in which a BasicEnemy moving in direction d runs into a
\* solid tile or reaches the left or right level edge leaves its rect
\* against that obstacle and its direction at -d; and every update of an
\* active BasicEnemy moves it with velocity_x = direction * speed, the
\* direction being the one the previous update left, so the next update
\* moves it away from the obstacle.
C13_PatrolReversal ==
    [][(IsEnemyUpdate /\ enemy.kind = "basic" /\ enemy.active) =>
         /\ enemy'.velocity_x = enemy.direction * enemy.speed
         /\ ReachesLeftEdge => enemy'.x = 0 /\ enemy'.direction = -enemy.direction
         /\ ReachesRightEdge =>
               /\ enemy'.x + Enemy_width = level.width
               /\ enemy'.direction = -enemy.direction
         /\ \A i \in BlockingTiles :
               /\ enemy'.direction = -enemy.direction
               /\ IF enemy.direction > 0
                  THEN enemy'.x + Enemy_width = level.solid_tiles[i].x
                  ELSE enemy'.x = level.solid_tiles[i].x + level.solid_tiles[i].w]_vars

\* the update after a reversal at a wall on the left: the enemy stood
\* against the tile and has moved away from it
C13_Witness ==
    /\ lastOp.op = "enemy_update"
    /\ enemy.kind = "basic"
    /\ enemy.direction = 1
    /\ enemy.velocity_x = BasicEnemy_speed
    /\ \E i \in 1..Len(level.solid_tiles) :
          /\ enemy.x = level.solid_tiles[i].x + level.solid_tiles[i].w + 1
          /\ YOverlap(Enemy_rect(enemy), level.solid_tiles[i])

IsAmbushUpdate == lastOp'.op = "ambush_update"

\* the state of an AmbushEnemy, read from its three flags
AmbushState(e) ==
    CASE e.is_attacking /\ ~e.is_staying /\ ~e.is_returning -> "Attacking"
      [] ~e.is_attacking /\ e.is_staying /\ ~e.is_returning -> "Staying"
      [] ~e.is_attacking /\ ~e.is_staying /\ e.is_returning -> "Returning"
      [] ~e.is_attacking /\ ~e.is_staying /\ ~e.is_returning -> "Idle"
      [] OTHER -> "Mixed"

AmbushCycle ==
    {<<"Idle", "Attacking">>, <<"Attacking", "Staying">>,
     <<"Staying", "Returning">>, <<"Returning", "Idle">>}

\* C14: an AmbushEnemy.update keeps the state or moves it one step along
\* Idle -> Attacking -> Staying -> Returning -> Idle; the stay begins with
\* stay_timer = stay_duration, loses 1 per Staying frame, and Returning
\* begins in the frame that brings the timer to 0.
C14_AmbushCycle ==
    [][IsAmbushUpdate =>
         /\ AmbushState(enemy') # "Mixed"
         /\ \/ AmbushState(enemy') = AmbushState(enemy)
            \/ <<AmbushState(enemy), AmbushState(enemy')>> \in AmbushCycle
         /\ (AmbushState(enemy) = "Attacking" /\ AmbushState(enemy') = "Staying") =>
                enemy'.stay_timer = stay_duration
         /\ (AmbushState(enemy) = "Staying" /\ enemy.active) =>
                /\ enemy'.stay_timer = enemy.stay_timer - 1
                /\ AmbushState(enemy') = "Returning" <=> enemy'.stay_timer = 0]_vars

\* the enemy has gone round the whole cycle and hangs idle again
C14_Witness ==
    /\ lastOp.op = "ambush_update"
    /\ hist.attacks = 1
    /\ AmbushState(enemy) = "Idle"
    /\ enemy.attack_cooldown = max_attack_cooldown
    /\ hist.idleUpdates = 0

\* the player position handed to the update of the step being taken,
\* measured from the centre of the enemy
SeenDx == lastOp'.d[1] - (enemy.x + Enemy_width \div 2)
SeenDy == lastOp'.d[2] - (enemy.y + Enemy_height \div 2)

\* a sample rect of the segment to pos meets one of the tiles
SampleMeets(e, pos, tiles) ==
    \E i \in 1..num_checks, k \in 1..Len(tiles) :
       colliderect(check_rect(e.x + Enemy_width \div 2, e.y + Enemy_height \div 2,
                              pos[1], pos[2], i),
                   tiles[k])

CooldownAfterDecrement == Max2(enemy.attack_cooldown - 1, 0)

PlayerSeen ==
    /\ CooldownAfterDecrement = 0
    /\ Sq(SeenDx) + Sq(SeenDy) <= Sq(detection_range)
    /\ SeenDy > 0
    /\ Abs(SeenDx) * 1000000 <= SeenDy * 767327
    /\ ~SampleMeets(enemy, lastOp'.d, level.solid_tiles)

\* C15: an update that begins in Idle ends in Attacking exactly when the
\* cooldown is 0 after this frame's decrement and the player position is
\* within detection_range of the enemy centre, strictly below it, inside the
\* cone |dx| <= dy * tan(37.5 deg), and no sample rect meets a solid tile;
\* one-way tiles play no part.
C15_AttackExactlyWhenSeen ==
    [][(IsAmbushUpdate /\ enemy.active /\ AmbushState(enemy) = "Idle") =>
         (AmbushState(enemy') = "Attacking" <=> PlayerSeen)]_vars

\* an attack on a player behind the one-way platform has begun
C15_Witness ==
    /\ lastOp.op = "ambush_update"
    /\ AmbushState(enemy) = "Attacking"
    /\ enemy.target_position = <<10 * (SpotBehindOneWay[1] + Player_width \div 2),
                                 10 * (SpotBehindOneWay[2] + Player_height \div 2)>>
    /\ SampleMeets([enemy EXCEPT !.x = enemy.hanging_position[1],
                                 !.y = enemy.hanging_position[2]],
                   SpotBehindOneWay, level.one_way_tiles)

AtHang(e) ==
    /\ e.x = e.hanging_position[1]
    /\ e.y = e.hanging_position[2]
    /\ e.velocity_x = 0
    /\ e.velocity_y = 0

\* C16: an update of a Returning enemy within 5 px of its hang position
\* ends at the hang position with velocity (0, 0) in Idle, and every update
\* that begins and ends in Idle leaves it at the hang position with
\* velocity (0, 0).
C16_ReturnSnapsToHang ==
    [][(IsAmbushUpdate /\ enemy.active) =>
         /\ ( /\ AmbushState(enemy) = "Returning"
              /\ Sq(enemy.hanging_position[1] - enemy.x)
                 + Sq(enemy.hanging_position[2] - enemy.y) <= Sq(5) ) =>
                AtHang(enemy') /\ AmbushState(enemy') = "Idle"
         /\ (AmbushState(enemy) = "Idle" /\ AmbushState(enemy') = "Idle") =>
                AtHang(enemy')]_vars

\* an Idle frame after a return that ended by the snap
C16_Witness ==
    /\ lastOp.op = "ambush_update"
    /\ hist.attacks = 1
    /\ AmbushState(enemy) = "Idle"
    /\ AtHang(enemy)
    /\ hist.idleUpdates = 2

AttackStarts == AmbushState(enemy) # "Attacking" /\ AmbushState(enemy') = "Attacking"

\* C17: attack_cooldown is max_attack_cooldown at the end of the update
\* that starts an attack; otherwise an update that begins in Idle lowers it
\* by 1, not below 0, and an update that begins in Attacking, Staying or
\* Returning leaves it unchanged; an attack after the first starts only in
\* the max_attack_cooldown-th Idle update since the return, or later.
C17_CooldownOnlyInIdle ==
    [][(IsAmbushUpdate /\ enemy.active) =>
         /\ enemy'.attack_cooldown >= 0
         /\ AttackStarts => enemy'.attack_cooldown = max_attack_cooldown
         /\ (~AttackStarts /\ AmbushState(enemy) = "Idle") =>
                enemy'.attack_cooldown = CooldownAfterDecrement
         /\ AmbushState(enemy) # "Idle" => enemy'.attack_cooldown = enemy.attack_cooldown
         /\ (AttackStarts /\ hist.attacks > 0) =>
                hist'.idleUpdates >= max_attack_cooldown]_vars

\* a second attack has begun
C17_Witness ==
    /\ lastOp.op = "ambush_update"
    /\ hist.attacks = 2
    /\ AmbushState(enemy) = "Attacking"
    /\ hist.idleUpdates = max_attack_cooldown

IsBossUpdate == lastOp'.op = "boss_update"

BossAttackStarts == enemy.current_attack = "none" /\ enemy'.current_attack # "none"

\* C18: attack_counter grows by exactly 1 in an update that starts an
\* attack and in no other; the attack started is 'ultimate' when the new
\* count is a multiple of 4, whatever random.choice returns, and
\* 'jump_shoot' or 'jump_slam' otherwise.
C18_EveryFourthIsUltimate ==
    [][IsBossUpdate =>
         /\ enemy'.attack_counter =
               IF BossAttackStarts THEN enemy.attack_counter + 1 ELSE enemy.attack_counter
         /\ BossAttackStarts =>
               IF enemy'.attack_counter % 4 = 0
               THEN enemy'.current_attack = "ultimate"
               ELSE enemy'.current_attack \in {"jump_shoot", "jump_slam"}]_vars

\* the fourth attack has started as the ultimate, in its first frame of
\* rising, although random.choice was set to return the jump-slam
C18_Witness ==
    /\ lastOp.op = "boss_update"
    /\ lastOp.d = "jump_slam"
    /\ enemy.attack_counter = 4
    /\ enemy.current_attack = "ultimate"
    /\ enemy.ultimate_state = "rising"
    /\ enemy.y = enemy.ultimate_position[2] + 200 - 5
    /\ hist.lastAttack \in {"jump_shoot", "jump_slam"}

\* C19: while current_attack is set no update chooses an attack; an attack
\* starts only in an update whose decrement leaves attack_cooldown at 0,
\* after at least min_attack_cooldown - 1 updates of normal movement since
\* a jump-shoot or jump-slam ended, and 2 * min_attack_cooldown - 1 since
\* an ultimate ended.
C19_AttacksKeepApart ==
    [][IsBossUpdate =>
         /\ enemy.current_attack # "none" =>
               /\ enemy'.current_attack \in {enemy.current_attack, "none"}
               /\ enemy'.attack_counter = enemy.attack_counter
         /\ BossAttackStarts =>
               /\ Max2(enemy.attack_cooldown - 1, 0) = 0
               /\ hist.lastAttack \in {"jump_shoot", "jump_slam"} =>
                     hist.calmUpdates >= min_attack_cooldown - 1
               /\ hist.lastAttack = "ultimate" =>
                     hist.calmUpdates >= 2 * min_attack_cooldown - 1]_vars

\* the attack after the ultimate has started, 2 * min_attack_cooldown - 1
\* updates of normal movement after the ultimate ended
C19_Witness ==
    /\ lastOp.op = "boss_update"
    /\ enemy.attack_counter = 5
    /\ enemy.current_attack # "none"
    /\ hist.lastAttack = "ultimate"
    /\ hist.calmUpdates = 2 * min_attack_cooldown - 1

IsProjectileUpdate == lastOp'.op = "projectile_update"
IsProjectileHit == lastOp'.op = "projectile_hit"

\* rect, velocity in tenths of a pixel per update, and out-of-bounds margin
\* of a projectile of either class
ProjectileRect(p) ==
    IF p.class = "Bullet" THEN Bullet_rect(p.body) ELSE BossBullet_rect(p.body)

ProjectileVelocity(p) ==
    IF p.class = "Bullet"
    THEN <<10 * p.body.speed * p.body.direction, 0>>
    ELSE <<p.body.velocity_x, p.body.velocity_y>>

ProjectileMargin(p) == IF p.class = "Bullet" THEN 0 ELSE BossBullet_margin

\* the rect lies wholly outside the level grown by margin on every side
OutsideBy(r, margin) ==
    \/ r.x + r.w < -margin
    \/ r.x > level.width + margin
    \/ r.y + r.h < -margin
    \/ r.y > level.height + margin

\* after n updates the rect stands n times the velocity from where the
\* projectile was created, to the pixel
OnCourse(p, n) ==
    /\ Abs(10 * (p.body.x - hist.origin[1]) - n * ProjectileVelocity(p)[1]) < 10
    /\ Abs(10 * (p.body.y - hist.origin[2]) - n * ProjectileVelocity(p)[2]) < 10

\* C20: every update moves a projectile by its velocity, which never
\* changes; an active projectile whose rect after the move is not wholly
\* outside the level stays active; the update that leaves the rect wholly
\* outside the level by the margin of its class, and every hit(), make it
\* inactive; an inactive projectile stays inactive.
C20_ProjectileFlight ==
    [][(IsProjectileUpdate \/ IsProjectileHit) =>
         /\ IsProjectileUpdate =>
               /\ ProjectileVelocity(projectile') = ProjectileVelocity(projectile)
               /\ OnCourse(projectile', hist'.flown)
               /\ (projectile.body.active /\ ~OutsideBy(ProjectileRect(projectile'), 0)) =>
                     projectile'.body.active
               /\ OutsideBy(ProjectileRect(projectile'), ProjectileMargin(projectile)) =>
                     ~projectile'.body.active
         /\ IsProjectileHit =>
               /\ ~projectile'.body.active
               /\ ProjectileRect(projectile') = ProjectileRect(projectile)
         /\ ~projectile.body.active => ~projectile'.body.active]_vars

IsGameUpdate == lastOp'.op = "game_update"

\* the tile lists and the flag remove_boss_tiles works on
BossTiles(lv) ==
    <<lv.solid_tiles, lv.removable_tiles, lv.one_way_tiles, lv.boss_defeated>>

\* the solid tiles that are not listed as removable, in their order
Permanent(lv) ==
    SelectSeq(lv.solid_tiles,
              LAMBDA t : \A i \in 1..Len(lv.removable_tiles) : lv.removable_tiles[i] # t)

DeadBosses(enemies) ==
    {i \in 1..Len(enemies) : enemies[i].kind = "boss" /\ ~enemies[i].active}

\* C21: on every level a game reaches, remove_boss_tiles called twice or
\* three times leaves the tile lists and boss_defeated as one call does, and
\* the first call takes from solid_tiles exactly the rects of removable_tiles;
\* in a game the tile lists change only in the frame in which the first boss
\* dies, by exactly that removal, and never again, whatever dies later.
C21_RemovalOnce ==
    /\ [](LET once == remove_boss_tiles(level)
          IN  /\ BossTiles(remove_boss_tiles(once)) = BossTiles(once)
              /\ BossTiles(remove_boss_tiles(remove_boss_tiles(once))) = BossTiles(once)
              /\ once.boss_defeated
              /\ once.removable_tiles = level.removable_tiles
              /\ once.one_way_tiles = level.one_way_tiles
              /\ ~level.boss_defeated => once.solid_tiles = Permanent(level)
              /\ level.boss_defeated <=> DeadBosses(game.enemies) # {})
    /\ [][/\ BossTiles(level') # BossTiles(level) =>
                /\ IsGameUpdate
                /\ DeadBosses(game.enemies) = {}
                /\ DeadBosses(game'.enemies) # {}
                /\ BossTiles(level') =
                      <<Permanent(level), level.removable_tiles, level.one_way_tiles, TRUE>>
          /\ level.boss_defeated => BossTiles(level') = BossTiles(level)]_vars

\* both bosses are dead, and the floor has lost its one plank and nothing
\* else
C21_Witness ==
    /\ DeadBosses(game.enemies) = {1, 2}
    /\ level.boss_defeated
    /\ Len(level.removable_tiles) = 1
    /\ Len(level.solid_tiles) = 16

AllCollected(lv) == \A i \in 1..Len(lv.collectibles) : lv.collectibles[i].collected

AtTheDoor(lv, p) == lv.exit_rect # NoRect /\ colliderect(Player_rect(p), lv.exit_rect)

\* C22: check_level_complete is true exactly when the level has an exit
\* rect, every collectible is collected and the player's rect overlaps the
\* exit rect; is_exit_unlocked is true exactly when nothing is left to
\* collect, so from the first frame in a level without collectibles; and a
\* frame completes the level exactly when the check is true at its end, so
\* never while a collectible is uncollected.
C22_LevelComplete ==
    /\ [](/\ check_level_complete(level, player) <=>
                (AllCollected(level) /\ AtTheDoor(level, player))
          /\ is_exit_unlocked(level) <=> AllCollected(level)
          /\ Len(level.collectibles) = 0 => is_exit_unlocked(level)
          /\ game.state = "level_complete" =>
                (AllCollected(level) /\ AtTheDoor(level, player)))
    /\ [][IsGameUpdate =>
             (game'.state = "level_complete" <=>
                 check_level_complete(level', player'))]_vars

\* the level is completed in a hall with a crystal
C22_Witness ==
    /\ game.state = "level_complete"
    /\ Len(level.collectibles) = 1
    /\ AllCollected(level)

\* the player apart from what a hit changes
Unhurt(p) == [p EXCEPT !.hearts = 0, !.invulnerable = FALSE, !.invulnerable_time = 0]

\* an enemy apart from what a bullet changes, and apart from which of its
\* own bullets are spent
Unharmed(e) ==
    IF e.kind = "boss"
    THEN [e EXCEPT !.health = 0, !.active = TRUE,
                   !.bullets = [j \in 1..Len(@) |-> [@[j] EXCEPT !.active = TRUE]]]
    ELSE [e EXCEPT !.health = 0, !.active = TRUE]

\* the player as Player.update leaves it in the frame being taken, run on
\* the tiles the frame began with
PlayerMoved ==
    Player_update(player, lastOp'.d.keys, now', level.solid_tiles,
                  level.one_way_tiles, level.width, level.height)

\* the i-th enemy as its update leaves it in the frame being taken, when it
\* is handed the position of p and the tiles the frame began with
EnemyMoved(i, p) ==
    Game_update_enemy(game.enemies[i], World(level, p, game),
                      lastOp'.d.choices[i], CHOOSE n \in JumpIntervals : TRUE)

\* an active enemy or a live bullet of an active boss overlaps the player
\* at the end of the enemy and bullet passes of the frame being taken
Struck ==
    \/ FirstHit(Player_rect(player'), game'.enemies) # 0
    \/ \E i \in 1..Len(game'.enemies) :
          /\ game'.enemies[i].kind = "boss"
          /\ game'.enemies[i].active
          /\ \E j \in 1..Len(game'.enemies[i].bullets) :
                /\ colliderect(Player_rect(player'),
                               BossBullet_rect(game'.enemies[i].bullets[j]))
                /\ \/ game'.enemies[i].bullets[j].active
                   \/ EnemyMoved(i, player').bullets[j].active

\* C23: in every playing frame the player is updated first, on the tiles the
\* frame began with; every enemy is then updated with the player's new
\* position and the same tiles, so boss tiles are never removed between the
\* two; the player is hurt only by what overlaps its new rect once the
\* bullets have hit the enemies; crystals are picked up at the new rect and
\* count for the level-complete check of the same frame; and the camera
\* follows the rect the frame ends with.
C23_FrameOrder ==
    [][(IsGameUpdate /\ ~game.game_over) =>
         /\ Unhurt(player') = Unhurt(PlayerMoved)
         /\ \A i \in 1..Len(game.enemies) :
               Unharmed(game'.enemies[i]) = Unharmed(EnemyMoved(i, player'))
         /\ player'.hearts < player.hearts => (Struck /\ player'.hearts = player.hearts - 1)
         /\ (FirstHit(Player_rect(player'), game'.enemies) # 0 /\ Vulnerable(PlayerMoved))
               => player'.hearts < player.hearts
         /\ \A i \in 1..Len(level.collectibles) :
               level'.collectibles[i].collected <=>
                  \/ level.collectibles[i].collected
                  \/ colliderect(Player_rect(player'), level.collectibles[i].rect)
         /\ game'.state = "level_complete" <=>
               (AllCollected(level') /\ AtTheDoor(level', player'))
         /\ game'.camera_x =
               Max2(0, Min2(centerx(Player_rect(player')) - SCREEN_WIDTH \div 2,
                            level.width - SCREEN_WIDTH))
         /\ game'.camera_y = 0]_vars

\* the first frame with the right key held: the player has moved, both
\* bosses aim their jump at where the player stands now, a bullet has
\* killed the first boss and taken the plank under the player, the camera
\* has gone to the right end of the hall
C23_Witness ==
    /\ lastOp.op = "game_update"
    /\ hist.frames = 1
    /\ player.x = start[1] + speed
    /\ level.boss_defeated
    /\ \A i \in 1..2 :
          game.enemies[i].jump_shoot_target = <<player.x - Boss_width \div 2, player.y - 150>>
    /\ game.camera_x = level.width - SCREEN_WIDTH

\* the body stands on something: the top of a solid or one-way tile under
\* its feet, or the bottom of the level
Supported(p, lv) ==
    \/ p.y + Player_height = lv.height
    \/ \E tiles \in {lv.solid_tiles, lv.one_way_tiles} :
          \E i \in 1..Len(tiles) :
             /\ tiles[i].y = p.y + Player_height
             /\ tiles[i].x < p.x + Player_width
             /\ p.x < tiles[i].x + tiles[i].w

\* C24: a player that begins an update grounded with velocity_y = 0 and is
\* given no jump key ends it grounded with velocity_y = 0 whenever there is
\* still support under its feet where the update leaves it, whether it stood,
\* walked or dashed.
C24_StaysGrounded ==
    [][(/\ lastOp'.op = "update"
        /\ player.on_ground
        /\ player.velocity_y = 0
        /\ ~hist'.prevKeys.jump
        /\ Supported(player', level))
          => (player'.on_ground /\ player'.velocity_y = 0)]_vars

\* a second grounded frame in a row, ended on a one-way platform after a
\* step to the side
C24_Witness ==
    /\ lastOp.op = "update"
    /\ ~hist.prevKeys.jump
    /\ player.was_on_ground
    /\ player.on_ground
    /\ player.velocity_x # 0
    /\ \E i \in 1..Len(level.one_way_tiles) :
          /\ level.one_way_tiles[i].y = player.y + Player_height
          /\ level.one_way_tiles[i].x < player.x + Player_width
          /\ player.x < level.one_way_tiles[i].x + level.one_way_tiles[i].w

\* the enemy stands on the top of a solid tile
EnemyOnSolid(e, lv) ==
    \E i \in 1..Len(lv.solid_tiles) :
       /\ lv.solid_tiles[i].y = e.y + Enemy_height
       /\ lv.solid_tiles[i].x < e.x + Enemy_width
       /\ e.x < lv.solid_tiles[i].x + lv.solid_tiles[i].w

\* C25: a Basic or Jumping enemy that begins an update grounded with
\* velocity_y = 0 and ends it standing on a solid tile, without having
\* jumped, ends it grounded.
C25_EnemyStaysGrounded ==
    [][(/\ IsEnemyUpdate
        /\ enemy.active
        /\ enemy.on_ground
        /\ enemy.velocity_y = 0
        /\ enemy'.velocity_y = 0
        /\ EnemyOnSolid(enemy', level))
          => enemy'.on_ground]_vars

\* the player as the update being taken would leave it in a level one
\* column wider, where the right-hand clamp does not act
PlayerInWiderLevel ==
    Player_update(player, hist'.prevKeys, now', level.solid_tiles,
                  level.one_way_tiles, level.width + tile_size, level.height)

\* C26: every update leaves the player with x in [0, level_width - width]
\* and y in [0, level_height - height]; a player at x = level_width - width
\* whose update moves it right, walking or dashing, stays at that x, and
\* vertically ends as it would without the clamp: same y, velocity_y and
\* on_ground.
C26_ClampedToLevel ==
    [][lastOp'.op = "update" =>
         /\ 0 <= player'.x /\ player'.x <= level.width - Player_width
         /\ 0 <= player'.y /\ player'.y <= level.height - Player_height
         /\ (player.x = level.width - Player_width /\ player'.velocity_x > 0) =>
               /\ player'.x = player.x
               /\ player'.velocity_y = PlayerInWiderLevel.velocity_y
               /\ player'.y = PlayerInWiderLevel.y
               /\ player'.on_ground = PlayerInWiderLevel.on_ground
               /\ PlayerInWiderLevel.x = player.x + player'.velocity_x]_vars

\* dashing right at the right-hand side of the level
C26_Witness ==
    /\ lastOp.op = "update"
    /\ player.x = level.width - Player_width
    /\ player.is_dashing
    /\ player.velocity_x = dash_speed
    /\ hist.prevKeys.right

\* the velocity_y a frame can leave a body with when the frame began with
\* velocity_y = v: gravity added (and capped) only if it began off the
\* ground, then zeroed by a landing or a ceiling, or replaced by a jump
AfterGravity(v, on_ground, g, cap, jump) ==
    {IF on_ground THEN v ELSE Min2(v + g, cap), 0, jump}

\* C27: gravity is added to velocity_y only in frames that begin with
\* on_ground false, and the result is capped: after every update the player's
\* velocity_y is within [jump_speed, max_fall_speed], and a Basic or Jumping
\* enemy's velocity_y is at most its max_fall_speed.
C27_GravityCapped ==
    [][lastOp'.op = "game_update" /\ ~game.game_over =>
         /\ player'.velocity_y \in
               AfterGravity(player.velocity_y, player.on_ground, gravity,
                            max_fall_speed, jump_speed)
         /\ jump_speed <= player'.velocity_y
         /\ player'.velocity_y <= max_fall_speed
         /\ Len(game'.enemies) = Len(game.enemies)
         /\ \A i \in 1..Len(game.enemies) :
               game.enemies[i].kind \in {"basic", "jumping"} =>
                  /\ game'.enemies[i].velocity_y \in
                        AfterGravity(game.enemies[i].velocity_y,
                                     game.enemies[i].on_ground, Enemy_gravity,
                                     Enemy_max_fall_speed, jump_force)
                  /\ game'.enemies[i].velocity_y <= Enemy_max_fall_speed]_vars

\* the player and both enemies falling at their terminal speeds
C27_Witness ==
    /\ lastOp.op = "game_update"
    /\ player.velocity_y = max_fall_speed
    /\ ~player.on_ground
    /\ \A i \in 1..Len(game.enemies) :
          /\ game.enemies[i].kind \in {"basic", "jumping"}
          /\ game.enemies[i].velocity_y = Enemy_max_fall_speed
    /\ Len(game.enemies) = 2

\* the rect of the enemy overlaps no solid tile of the level
EnemyClear(e, lv) ==
    \A i \in 1..Len(lv.solid_tiles) : ~colliderect(Enemy_rect(e), lv.solid_tiles[i])

\* C28: an update of an active enemy of any variant (Basic, Jumping, Ambush
\* in any state, Boss in normal movement or in an attack phase) that begins
\* with its rect overlapping no solid tile ends with its rect overlapping no
\* solid tile.
C28_EnemyNeverInSolid ==
    [][(/\ lastOp'.op \in {"enemy_update", "ambush_update", "boss_update"}
        /\ enemy.active
        /\ EnemyClear(enemy, level))
       => EnemyClear(enemy', level)]_vars

\* squared distance between two points given in tenths of a pixel
Dist2(ax, ay, bx, by) == Sq(ax - bx) + Sq(ay - by)

\* the centre of the enemy, in tenths of a pixel
Centre10(e) == <<10 * centerx(Enemy_rect(e)), 10 * centery(Enemy_rect(e))>>

\* the target t is the point p if p is within max_dash_distance of the
\* start s, and otherwise lies on the segment from s to p at
\* max_dash_distance from s; all in tenths, each coordinate rounded down
AimedAt(t, s, p) ==
    IF Dist2(p[1], p[2], s[1], s[2]) <= Sq(10 * max_dash_distance)
    THEN t = p
    ELSE /\ Dist2(t[1], t[2], s[1], s[2]) <= Sq(10 * max_dash_distance)
         /\ Dist2(t[1] + 1, t[2] + 1, s[1], s[2]) >= Sq(10 * max_dash_distance - 2)
         /\ Abs((t[1] - s[1]) * (p[2] - s[2]) - (t[2] - s[2]) * (p[1] - s[1]))
               <= Abs(p[1] - s[1]) + Abs(p[2] - s[2])
         /\ (t[1] - s[1]) * (p[1] - s[1]) >= 0
         /\ (t[2] - s[2]) * (p[2] - s[2]) >= 0

\* the next dash step would take the centre further from the target
WouldOvershoot(e) ==
    Dist2(e.target_position[1], e.target_position[2],
          Centre10(e)[1] + e.velocity_x, Centre10(e)[2] + e.velocity_y)
      > Dist2(e.target_position[1], e.target_position[2],
              Centre10(e)[1], Centre10(e)[2])

\* the dash ends before the overshoot check: the target is within 20 px or
\* the range is used up (lines 464-465)
DashSpent(e) ==
    \/ Dist2(e.target_position[1], e.target_position[2],
             Centre10(e)[1], Centre10(e)[2]) <= Sq(10 * 20)
    \/ Dist2(Centre10(e)[1], Centre10(e)[2], 10 * e.attack_start_position[1],
             10 * e.attack_start_position[2]) >= Sq(10 * max_dash_distance)

C30_AttackTerminates ==
    /\ (AmbushState(enemy) = "Attacking") ~> (AmbushState(enemy) = "Staying")
    /\ (AmbushState(enemy) = "Staying") ~> (AmbushState(enemy) = "Returning")
    /\ (AmbushState(enemy) = "Returning")
          ~> (AmbushState(enemy) = "Idle" /\ AtHang(enemy))
    /\ [][(IsAmbushUpdate /\ enemy.active) =>
            /\ (AmbushState(enemy) # "Staying" /\ AmbushState(enemy') = "Staying") =>
                  enemy'.stay_timer = stay_duration
            /\ AmbushState(enemy) = "Staying" =>
                  /\ enemy'.x = enemy.x
                  /\ enemy'.y = enemy.y
                  /\ enemy'.stay_timer = enemy.stay_timer - 1
                  /\ IF enemy.stay_timer = 1
                     THEN AmbushState(enemy') = "Returning"
                     ELSE AmbushState(enemy') = "Staying"]_vars

\* the first update in Idle after the return from the dash that ended on
\* its target beside the path
C30_Witness ==
    /\ lastOp.op = "ambush_update"
    /\ hist.attacks >= 1
    /\ AmbushState(enemy) = "Idle"
    /\ AtHang(enemy)
    /\ hist.idleUpdates = 1
    /\ enemy.attack_cooldown = max_attack_cooldown - 1

\* a falling phase of a boss attack: jump-shoot Falling or ultimate Descending
BossFalling(e) ==
    \/ e.current_attack = "jump_shoot" /\ e.jump_shoot_state = "falling"
    \/ e.current_attack = "ultimate" /\ e.ultimate_state = "descending"

\* C31: every boss attack that starts eventually ends with the boss grounded
\* and current_attack None, and while the boss is in jump-shoot Falling or
\* ultimate Descending gravity accumulates in velocity_y from frame to frame,
\* up to max_fall_speed, until it lands.
C31_BossAttackEnds ==
    /\ (enemy.current_attack # "none")
          ~> (enemy.current_attack = "none" /\ enemy.on_ground)
    /\ [][(lastOp'.op = "boss_update" /\ enemy.active
           /\ BossFalling(enemy) /\ BossFalling(enemy')) =>
             enemy'.velocity_y = Min2(enemy.velocity_y + Enemy_gravity,
                                      Enemy_max_fall_speed)]_vars

\* the last n bullets of the boss
LastBullets(e, n) == SubSeq(e.bullets, Len(e.bullets) - n + 1, Len(e.bullets))

\* three bullets flying left, then three flying right, none of them moving
\* vertically
SlamSalvo(bs) ==
    /\ Len(bs) = 6
    /\ \A i \in 1..3 : bs[i].velocity_x < 0 /\ bs[i].velocity_y = 0 /\ bs[i].active
    /\ \A i \in 4..6 : bs[i].velocity_x > 0 /\ bs[i].velocity_y = 0 /\ bs[i].active

\* C32: every jump-slam attack creates its slam projectiles exactly once:
\* the boss does not reach Slamming without having created them; they are
\* 3 bullets to the left and 3 to the right, added in an update that leaves
\* the boss moving downward in the Jumping state; once created, no bullet is
\* added in the rest of the attack; and Slamming lasts 30 updates, the 30th
\* ending the attack.
C32_SlamOnce ==
    [][(lastOp'.op = "boss_update" /\ enemy.active) =>
         /\ enemy'.jump_slam_state = "slamming" => enemy'.slam_bullets_created
         /\ (/\ enemy'.current_attack = "jump_slam"
             /\ enemy'.slam_bullets_created
             /\ ~(enemy.current_attack = "jump_slam" /\ enemy.slam_bullets_created)) =>
               /\ enemy'.jump_slam_state = "jumping"
               /\ enemy'.velocity_y > 0
               /\ Len(enemy'.bullets) >= 6
               /\ SlamSalvo(LastBullets(enemy', 6))
               /\ Len(enemy'.bullets) - 6 <= Len(enemy.bullets)
         /\ (enemy.current_attack = "jump_slam" /\ enemy.slam_bullets_created) =>
               Len(enemy'.bullets) <= Len(enemy.bullets)
         /\ (enemy.current_attack = "jump_slam" /\ enemy.jump_slam_state = "slamming") =>
               LET left == IF enemy.slam_recovery_timer = 0 THEN 30
                           ELSE enemy.slam_recovery_timer
               IN  IF left = 1
                   THEN enemy'.current_attack = "none"
                   ELSE /\ enemy'.current_attack = "jump_slam"
                        /\ enemy'.jump_slam_state = "slamming"
                        /\ enemy'.slam_recovery_timer = left - 1]_vars
\* C33: a JumpingEnemy is given velocity_y = jump_force only in an update
\* that it enters grounded and in which its jump timer reaches the interval;
\* the interval is always between 90 and 150, the jump restarts the timer at
\* 0 and redraws the interval, two jumps (and the construction and the first
\* jump) are at least 90 updates apart, and the enemy goes on to its next
\* jump.
C33_JumpTiming ==
    /\ [][(lastOp'.op = "jumper_update" /\ enemy.active) =>
            LET jumped == enemy.on_ground /\ enemy.jump_timer + 1 >= enemy.jump_interval
            IN  /\ enemy.jump_interval \in 90..150
                /\ enemy'.jump_interval \in 90..150
                /\ (enemy'.velocity_y < 0 /\ enemy.velocity_y >= 0) => jumped
                /\ enemy'.jump_timer = 0 <=> jumped
                /\ jumped => /\ enemy'.y <= enemy.y
                             /\ enemy'.velocity_y \in {jump_force, 0}
                             /\ enemy'.jump_interval = lastOp'.d
                             /\ hist.sinceJump + 1 >= 90
                /\ ~jumped => /\ enemy'.jump_timer = enemy.jump_timer + 1
                              /\ enemy'.jump_interval = enemy.jump_interval]_vars
    /\ \A k \in 0..(MaxJumps - 1) : (hist.jumps = k) ~> (hist.jumps = k + 1)

C33_Witness ==
    /\ lastOp.op = "jumper_update"
    /\ hist.jumps = 2
    /\ enemy.jump_timer = 0
    /\ enemy.velocity_y = jump_force
    /\ ~enemy.on_ground
\* an active enemy and a spent bullet of an active boss both overlap the
\* player: both collision passes of the frame called take_damage
TouchedTwice(p, g) ==
    /\ FirstHit(Player_rect(p), g.enemies) # 0
    /\ \E i \in 1..Len(g.enemies) :
          /\ g.enemies[i].kind = "boss" /\ g.enemies[i].active
          /\ \E j \in 1..Len(g.enemies[i].bullets) :
                /\ ~g.enemies[i].bullets[j].active
                /\ colliderect(Player_rect(p), BossBullet_rect(g.enemies[i].bullets[j]))

\* C34: a frame of Game.update lowers the player's hearts by one at most,
\* also when the player touches an enemy and a boss bullet in it; the frame
\* that lowers them leaves the player invulnerable from that frame's clock
\* reading on.
C34_OneHeartPerFrame ==
    [][lastOp'.op = "game_update" =>
         /\ player'.hearts >= player.hearts - 1
         /\ player'.hearts <= player.hearts
         /\ player'.hearts < player.hearts =>
               /\ player'.invulnerable
               /\ player'.invulnerable_time = now']_vars

C34_Witness ==
    /\ lastOp.op = "game_update"
    /\ player.hearts < max_hearts
    /\ player.invulnerable_time = now
    /\ TouchedTwice(player, game)
C36_OnePhase ==
    enemy.kind = "ambush" =>
        /\ ~(enemy.is_attacking /\ enemy.is_staying)
        /\ ~(enemy.is_attacking /\ enemy.is_returning)
        /\ ~(enemy.is_staying /\ enemy.is_returning)
        /\ enemy.is_attacking =>
              /\ enemy.target_position # << >>
              /\ enemy.attack_start_position # << >>

C36_Witness ==
    /\ lastOp.op = "ambush_update"
    /\ enemy.is_attacking
    /\ enemy.target_position # << >>
    /\ hist.attacks >= 2
\* the width and height attributes of an enemy
WidthOf(e) == IF e.kind = "boss" THEN Boss_width ELSE Enemy_width
HeightOf(e) == IF e.kind = "boss" THEN Boss_height ELSE Enemy_height

\* C37: the collision rect of an enemy has the size of its width and height
\* attributes, at construction and after every update; the rect of the boss
\* is 64 x 64.
C37_RectSize ==
    /\ Enemy_rect(enemy).w = WidthOf(enemy)
    /\ Enemy_rect(enemy).h = HeightOf(enemy)
    /\ enemy.kind = "boss" => Enemy_rect(enemy).w = 64 /\ Enemy_rect(enemy).h = 64
\* the health the enemies 1..n lose in the frame being taken
RECURSIVE HealthLost(_)
HealthLost(n) ==
    IF n = 0 THEN 0
    ELSE HealthLost(n - 1) + game.enemies[n].health - game'.enemies[n].health

Spent(bullets) == {j \in 1..Len(bullets) : ~bullets[j].active}

\* C38: in every playing frame each spent bullet of the player has taken
\* one health point from one enemy and nothing else has; a bullet that was
\* spent before the frame is gone after it; an inactive enemy loses no
\* health; the update of an active boss leaves only active bullets in its
\* collection; the frame spends at most one bullet of each boss, one that
\* overlaps the player, and takes at most one heart.
C38_DamageOnce ==
    [][(IsGameUpdate /\ ~game.game_over) =>
         /\ HealthLost(Len(game.enemies)) = Cardinality(Spent(game'.bullets))
         /\ Len(game'.bullets) <= Len(game.bullets) - Cardinality(Spent(game.bullets))
         /\ \A i \in 1..Len(game.enemies) :
               /\ ~game.enemies[i].active => game'.enemies[i] = game.enemies[i]
               /\ game'.enemies[i].health <= game.enemies[i].health
               /\ (game.enemies[i].kind = "boss" /\ game.enemies[i].active) =>
                     /\ Spent(EnemyMoved(i, player').bullets) = {}
                     /\ Cardinality(Spent(game'.enemies[i].bullets)) <= 1
                     /\ \A j \in Spent(game'.enemies[i].bullets) :
                           colliderect(Player_rect(player'),
                                       BossBullet_rect(game'.enemies[i].bullets[j]))
         /\ player'.hearts >= player.hearts - 1]_vars

\* a bullet of the player is flying through an enemy that an earlier bullet
\* has killed
C38_Witness ==
    /\ lastOp.op = "game_update"
    /\ \E j \in 1..Len(game.bullets), i \in 1..Len(game.enemies) :
          /\ game.bullets[j].active
          /\ ~game.enemies[i].active
          /\ colliderect(Bullet_rect(game.bullets[j]), Enemy_rect(game.enemies[i]))
\* C39: an update that starts a dash comes more than dash_cooldown ms after
\* the update that started the previous one, and the key of the dash has a
\* rising edge in it that is not the first rising edge of that key since the
\* player was constructed, whatever the clock read at construction.
C39_DashSpacing ==
    [][(IsUpdate /\ DashStarted(player', now')) =>
         /\ hist.lastDash >= 0 => now' - hist.lastDash > dash_cooldown
         /\ player'.dash_direction \in {-1, 1}
         /\ player'.dash_direction = -1 =>
               (StepKeys.left /\ ~hist.prevKeys.left /\ hist.leftEdge >= 0)
         /\ player'.dash_direction = 1 =>
               (StepKeys.right /\ ~hist.prevKeys.right /\ hist.rightEdge >= 0)]_vars

\* a dash of a player that was constructed, and pressed the key for the
\* first time, before the clock read double_tap_window
C39_Witness ==
    /\ lastOp.op = "update"
    /\ DashStarted(player, now)
    /\ now <= dash_cooldown + 2 * double_tap_window
    /\ hist.leftEdge >= 0
    /\ hist.rightEdge >= 0
\* C40: a player that ends an update with on_ground true has its bottom edge
\* on the top of a solid or one-way tile under it or on the level bottom,
\* and unless it began the update inside a solid tile the update has not
\* lifted it there; a body in mid-air, also one that overlaps a one-way
\* tile, is not grounded.
C40_GroundedOnSupport ==
    [][(IsUpdate /\ player'.on_ground) =>
         /\ Supported(player', level')
         /\ NoSolidOverlap(player) => player'.y >= player.y
         /\ player'.velocity_y \in {0, jump_speed}]_vars

\* a falling body that overlaps a one-way tile and is not grounded
C40_Witness ==
    /\ lastOp.op = "update"
    /\ ~player.on_ground
    /\ player.velocity_y > 0
    /\ AnyCollides(Player_rect(player), level.one_way_tiles)
====
